---- MODULE Spec2Model ----
(***************************************************************************)
(* RistrettoDB: the append-only table file (Engine B, src/src/table_v2.c)  *)
(* and the general SQL engine (Engine A: pager, storage, btree, query, db).*)
(*                                                                         *)
(* Memory is modelled at byte level.  A mapped file is a sparse function   *)
(* from byte offset to non-zero byte value (absent offsets read as 0).     *)
(* A 64-bit scalar is its 8-byte little-endian image, a text is the        *)
(* sequence of its (non-zero) bytes.                                       *)
(***************************************************************************)
EXTENDS Integers, Sequences, FiniteSets, TLC

VARIABLES
    file,       \* data/<name>.rdb : [exists, size, hdr, mem]
    tbl,        \* the Engine B Table handle, or NoTable
    crashed,    \* the process took a fault (access to unmapped memory)
    sink,       \* rows handed to the row sink by the last table_select
    ret,        \* [op, val] : last Engine B call and what it returned
    appended,   \* history: value vectors of the successful appends
    snap,       \* history: what the handle showed at its close, kept until
                \* the file is written again
    envfail,    \* history: a truncate/mmap of the environment has failed
    codec,      \* pack/unpack harness: [cols, row_size, values, out, done]
    disk,       \* Engine A database files : name -> [size, mem]
    db,         \* RistrettoDB handles with their pagers and mappings
    catalog,    \* the process-wide table catalog of query.c
    out,        \* last Engine A statement: handle, plan, result, rows delivered
    hist        \* history: rows of the INSERTs that returned OK, and the
                \* handle through which each table was created

varsB == <<file, tbl, crashed, sink, ret, appended, snap, envfail>>
varsC == <<codec>>
varsA == <<disk, db, catalog, out, hist>>
varsTable == <<file, tbl, sink, ret, appended, snap, envfail, codec>>
vars  == <<file, tbl, crashed, sink, ret, appended, snap, envfail, codec,
           disk, db, catalog, out, hist>>

-----------------------------------------------------------------------------
(* table_v2.h *)
MAX_COLUMNS        == 14
MAX_COLUMN_NAME    == 8
TABLE_HEADER_SIZE  == 256
INITIAL_FILE_SIZE  == 1048576
GROWTH_FACTOR      == 2
SYNC_INTERVAL_ROWS == 512
TABLE_VERSION      == 1
COL_TYPE_INTEGER   == 1
COL_TYPE_REAL      == 2
COL_TYPE_TEXT      == 3

NoTable == [live |-> FALSE]

-----------------------------------------------------------------------------
(* Bounds of the model *)
MaxRows     == 2      \* appends per table in the small scenarios
MaxGrowRows == 296    \* appends in the growth scenario (one doubling at 294)
MaxRowsA    == 2      \* rows per Engine A table in the small scenarios
MaxOpens    == 1      \* ristretto_open calls per handle slot
AddrPages   == 48     \* pages of address space the mappings are placed in
MaxScanRows == 102    \* rows of the scan scenario (column-vector path above 100)
ScanFreeRows == 2     \* rows of the scan scenario that choose their value

-----------------------------------------------------------------------------
(* Byte memory *)
Min(a, b) == IF a < b THEN a ELSE b
Max(a, b) == IF a > b THEN a ELSE b

\* *(uint8_t*)(m + o)
Rd(m, o) == IF o \in DOMAIN m THEN m[o] ELSE 0

\* the n bytes at m + o
RdBytes(m, o, n) == [i \in 1..n |-> Rd(m, o + i - 1)]

\* memset(m + o, 0, n)
memset0(m, o, n) == [x \in {y \in DOMAIN m : y < o \/ y >= o + n} |-> m[x]]

\* memcpy(m + o, bs, Len(bs))
memcpy(m, o, bs) ==
    LET n == Len(bs)
        D == {y \in DOMAIN m : y < o \/ y >= o + n}
                 \cup {o + i - 1 : i \in {j \in 1..n : bs[j] # 0}}
    IN  [x \in D |-> IF x >= o /\ x < o + n THEN bs[x - o + 1] ELSE m[x]]

\* strnlen(m + o, maxlen)
strnlen(m, o, maxlen) ==
    LET Z == {k \in 0..(maxlen - 1) : Rd(m, o + k) = 0}
    IN  IF Z = {} THEN Max(maxlen, 0)
        ELSE CHOOSE k \in Z : \A j \in Z : k <= j

ZERO8 == <<0, 0, 0, 0, 0, 0, 0, 0>>

-----------------------------------------------------------------------------
(* Value constructors *)
value_integer(b8) == [type |-> COL_TYPE_INTEGER, is_null |-> FALSE, num |-> b8,    text |-> <<>>]
value_real(b8)    == [type |-> COL_TYPE_REAL,    is_null |-> FALSE, num |-> b8,    text |-> <<>>]
value_text(s)     == [type |-> COL_TYPE_TEXT,    is_null |-> FALSE, num |-> ZERO8, text |-> s]
value_null        == [type |-> 0,                is_null |-> TRUE,  num |-> ZERO8, text |-> <<>>]

-----------------------------------------------------------------------------
(* Schema sub-parser.  A schema is [paren, items]; an item is what lies    *)
(* between two commas: [fields, name, kw, has_arg, arg], fields being the  *)
(* number of tokens sscanf converts, kw(arg) the type token.               *)

\* (uint8_t) x
U8(x) == x % 256

\* strncmp(s, p, strlen(p)) == 0
StartsWith(s, p) == Len(s) >= Len(p) /\ SubSeq(s, 1, Len(p)) = p

\* sscanf(col_def, " %7s %31s", name, type_str) on the words of a column
\* definition: [fields, name, type_str].  %7s stops after 7 bytes of the
\* first word, and %31s goes on from the 8th
sscanf_name_type(words) ==
    IF Len(words) = 0 THEN [fields |-> 0, name |-> "", type_str |-> ""]
    ELSE IF Len(words[1]) > 7
    THEN [fields |-> 2, name |-> SubSeq(words[1], 1, 7),
          type_str |-> SubSeq(words[1], 8, Min(Len(words[1]), 7 + 31))]
    ELSE IF Len(words) = 1 THEN [fields |-> 1, name |-> words[1], type_str |-> ""]
    ELSE [fields |-> 2, name |-> words[1],
          type_str |-> SubSeq(words[2], 1, Min(Len(words[2]), 31))]

\* the item of a column definition given as its words, the type word
\* without its (n), and the (n) of a TEXT(n) apart
ColumnDef(words, has_arg, arg) ==
    [fields  |-> sscanf_name_type(words).fields,
     name    |-> sscanf_name_type(words).name,
     kw      |-> sscanf_name_type(words).type_str,
     has_arg |-> has_arg /\ Len(words) > 1 /\ Len(words[1]) <= 7,
     arg     |-> arg]

\* the type branch of table_parse_schema: [ok, type, length]
ColumnTypeOf(it) ==
    IF StartsWith(it.kw, "INTEGER")
    THEN [ok |-> TRUE, type |-> COL_TYPE_INTEGER, length |-> 8]
    ELSE IF StartsWith(it.kw, "REAL")
    THEN [ok |-> TRUE, type |-> COL_TYPE_REAL, length |-> 8]
    ELSE IF StartsWith(it.kw, "TEXT") THEN
        [ok |-> TRUE, type |-> COL_TYPE_TEXT,
         length |-> IF it.has_arg
                    THEN U8(IF it.arg > 255 THEN 255 ELSE it.arg)
                    ELSE 64]
    ELSE [ok |-> FALSE, type |-> 0, length |-> 0]

RECURSIVE ParseLoop(_, _, _, _)
ParseLoop(items, k, cols, offset) ==
    IF k > Len(items) \/ Len(cols) >= MAX_COLUMNS
    THEN [ok |-> TRUE, cols |-> cols, row_size |-> offset]
    ELSE LET it == items[k]
             t  == ColumnTypeOf(it)
         IN  IF it.fields < 2
             THEN [ok |-> TRUE, cols |-> cols, row_size |-> offset]
             ELSE IF ~t.ok
             THEN [ok |-> FALSE, cols |-> cols, row_size |-> offset]
             ELSE ParseLoop(items, k + 1,
                            Append(cols, [name |-> it.name, type |-> t.type,
                                          length |-> t.length,
                                          offset |-> offset % 65536]),
                            offset + t.length)

table_parse_schema(schema) ==
    IF ~schema.paren
    THEN [ok |-> FALSE, cols |-> <<>>, row_size |-> 0]
    ELSE LET r == ParseLoop(schema.items, 1, <<>>, 0)
         IN  [ok |-> r.ok /\ Len(r.cols) > 0, cols |-> r.cols, row_size |-> r.row_size]

-----------------------------------------------------------------------------
(* Row codec *)

\* one column of table_pack_row: [ok, m, top]; top is one past the highest
\* byte written so far
PackColumn(col, val, m, dest, top) ==
    IF val.is_null THEN [ok |-> TRUE, m |-> m, top |-> top]
    ELSE IF col.type = COL_TYPE_INTEGER \/ col.type = COL_TYPE_REAL
    THEN [ok |-> TRUE, m |-> memcpy(m, dest, val.num), top |-> Max(top, dest + 8)]
    ELSE IF col.type = COL_TYPE_TEXT
    THEN LET n        == Len(val.text)
             \* copy_len > col->length - 1 compares a size_t with an int:
             \* for length 0 the right side is (size_t)-1 and never exceeded
             copy_len == IF col.length >= 1 /\ n > col.length - 1
                         THEN col.length - 1 ELSE n
         IN  [ok |-> TRUE,
              m  |-> memcpy(m, dest, SubSeq(val.text, 1, copy_len) \o <<0>>),
              top |-> Max(top, dest + copy_len + 1)]
    ELSE [ok |-> FALSE, m |-> m, top |-> top]

RECURSIVE PackLoop(_, _, _, _, _, _)
PackLoop(cols, values, i, m, base, top) ==
    IF i > Len(cols) THEN [ok |-> TRUE, m |-> m, top |-> top]
    ELSE LET r == PackColumn(cols[i], values[i], m, base + cols[i].offset, top)
         IN  IF ~r.ok THEN r
             ELSE PackLoop(cols, values, i + 1, r.m, base, r.top)

\* table_pack_row(table, values, m + base)
table_pack_row(cols, row_size, values, m, base) ==
    PackLoop(cols, values, 1, memset0(m, base, row_size), base, base + row_size)

\* one column of table_unpack_row: [ok, val, top]
UnpackColumn(col, m, src) ==
    IF col.type = COL_TYPE_INTEGER \/ col.type = COL_TYPE_REAL
    THEN [ok |-> TRUE, top |-> src + 8,
          val |-> [type |-> col.type, is_null |-> FALSE,
                   num |-> RdBytes(m, src, 8), text |-> <<>>]]
    ELSE IF col.type = COL_TYPE_TEXT
    THEN LET n == strnlen(m, src, col.length)
         IN  [ok |-> TRUE, top |-> src + Min(n + 1, col.length),
              val |-> [type |-> col.type, is_null |-> FALSE,
                       num |-> ZERO8, text |-> RdBytes(m, src, n)]]
    ELSE [ok |-> FALSE, top |-> src, val |-> value_null]

\* table_unpack_row(table, m + base, values): [ok, values, top]
table_unpack_row(cols, m, base) ==
    LET u == [i \in 1..Len(cols) |-> UnpackColumn(cols[i], m, base + cols[i].offset)]
        T == {base} \cup {u[i].top : i \in 1..Len(cols)}
    IN  [ok     |-> \A i \in 1..Len(cols) : u[i].ok,
         values |-> [i \in 1..Len(cols) |-> u[i].val],
         top    |-> CHOOSE t \in T : \A s \in T : s <= t]

-----------------------------------------------------------------------------
(* Engine B table file and handle *)

EmptyMem == [x \in {} |-> 0]

NoFile == [exists |-> FALSE, size |-> 0,
           hdr |-> [magic_ok |-> FALSE, version |-> 0, row_size |-> 0,
                    num_rows |-> 0, column_count |-> 0, columns |-> <<>>],
           mem |-> EmptyMem]

\* table_remap that maps the grown file but keeps the old mapped_size
table_remap_keeps_size(t, f, ft_ok, mm_ok) ==
    LET new_size == t.mapped_size * GROWTH_FACTOR
    IN  IF ~ft_ok
        THEN [ok |-> FALSE, tbl |-> [t EXCEPT !.mapped = FALSE], file |-> f]
        ELSE IF ~mm_ok
        THEN [ok |-> FALSE, tbl |-> [t EXCEPT !.mapped = FALSE],
              file |-> [f EXCEPT !.size = new_size]]
        ELSE [ok |-> TRUE, tbl |-> t, file |-> [f EXCEPT !.size = new_size]]

\* table_remap(table): [ok, tbl, file]
table_remap(t, f, ft_ok, mm_ok) ==
    LET new_size == t.mapped_size * GROWTH_FACTOR
    IN  IF ~ft_ok
        THEN [ok |-> FALSE, tbl |-> [t EXCEPT !.mapped = FALSE], file |-> f]
        ELSE IF ~mm_ok
        THEN [ok |-> FALSE, tbl |-> [t EXCEPT !.mapped = FALSE],
              file |-> [f EXCEPT !.size = new_size]]
        ELSE [ok |-> TRUE, tbl |-> [t EXCEPT !.mapped_size = new_size],
              file |-> [f EXCEPT !.size = new_size]]

\* table_ensure_space(table, needed_bytes): [ok, tbl, file]
table_ensure_space(t, f, needed_bytes, ft_ok, mm_ok) ==
    IF t.write_offset + needed_bytes <= t.mapped_size
    THEN [ok |-> TRUE, tbl |-> t, file |-> f]
    ELSE table_remap(t, f, ft_ok, mm_ok)

\* no msync call, and msync(mapped_ptr, len, MS_ASYNC) with its result
NoSync == [issued |-> FALSE, ok |-> FALSE, len |-> 0]
msync(len, ok) == [issued |-> TRUE, ok |-> ok, len |-> len]

\* table_flush that leaves rows_since_sync as it is
table_flush_keeps_count(t, ms_ok) ==
    IF t.mapped /\ ms_ok
    THEN [ok |-> TRUE, tbl |-> t, msync |-> msync(t.write_offset, TRUE)]
    ELSE [ok |-> FALSE, tbl |-> t, msync |-> msync(t.write_offset, FALSE)]

\* table_flush(table): [ok, tbl, msync]
table_flush(t, ms_ok) ==
    IF t.mapped /\ ms_ok
    THEN [ok |-> TRUE, tbl |-> [t EXCEPT !.rows_since_sync = 0],
          msync |-> msync(t.write_offset, TRUE)]
    ELSE [ok |-> FALSE, tbl |-> t, msync |-> msync(t.write_offset, FALSE)]

\* table_append_row(table, values): [ok, fault, tbl, file, msync]; elapsed
\* says that SYNC_INTERVAL_MS have passed since last_sync_time_ms
table_append_row(t, f, values, elapsed, ft_ok, mm_ok, ms_ok) ==
    IF ~t.mapped
    THEN [ok |-> FALSE, fault |-> TRUE, tbl |-> t, file |-> f, msync |-> NoSync]
    ELSE
    LET e == table_ensure_space(t, f, f.hdr.row_size, ft_ok, mm_ok)
    IN  IF ~e.ok
        THEN [ok |-> FALSE, fault |-> FALSE, tbl |-> e.tbl, file |-> e.file,
              msync |-> NoSync]
        ELSE
        LET p  == table_pack_row(f.hdr.columns, f.hdr.row_size, values,
                                 e.file.mem, e.tbl.write_offset)
            t1 == [e.tbl EXCEPT !.write_offset = @ + f.hdr.row_size,
                                !.rows_since_sync = @ + 1]
            f1 == [e.file EXCEPT !.mem = p.m, !.hdr.num_rows = @ + 1]
            s  == IF t1.rows_since_sync >= SYNC_INTERVAL_ROWS \/ elapsed
                  THEN table_flush(t1, ms_ok)
                  ELSE [ok |-> TRUE, tbl |-> t1, msync |-> NoSync]
        IN  IF p.top > e.tbl.mapped_size
            THEN [ok |-> FALSE, fault |-> TRUE, tbl |-> e.tbl, file |-> e.file,
                  msync |-> NoSync]
            ELSE IF ~p.ok
            THEN [ok |-> FALSE, fault |-> FALSE, tbl |-> e.tbl,
                  file |-> [e.file EXCEPT !.mem = p.m], msync |-> NoSync]
            ELSE [ok |-> TRUE, fault |-> FALSE, tbl |-> s.tbl, file |-> f1,
                  msync |-> s.msync]

\* table_select that starts its scan at the first byte of the file
table_select_from_zero(t, f, where_clause) ==
    LET h == f.hdr
        u == [i \in 1..h.num_rows |->
                 table_unpack_row(h.columns, f.mem, (i - 1) * h.row_size)]
        Keep(r) == r.ok
    IN  IF ~t.mapped \/ \E i \in 1..h.num_rows : u[i].top > t.mapped_size
        THEN [fault |-> TRUE, rows |-> <<>>]
        ELSE [fault |-> FALSE,
              rows |-> LET k == SelectSeq(u, Keep)
                       IN  [i \in 1..Len(k) |-> k[i].values]]

\* table_select(table, where_clause, callback, ctx): [fault, rows]
table_select(t, f, where_clause) ==
    LET h == f.hdr
        u == [i \in 1..h.num_rows |->
                 table_unpack_row(h.columns, f.mem,
                                  TABLE_HEADER_SIZE + (i - 1) * h.row_size)]
        Keep(r) == r.ok
    IN  IF ~t.mapped \/ \E i \in 1..h.num_rows : u[i].top > t.mapped_size
        THEN [fault |-> TRUE, rows |-> <<>>]
        ELSE [fault |-> FALSE,
              rows |-> LET k == SelectSeq(u, Keep)
                       IN  [i \in 1..Len(k) |-> k[i].values]]

-----------------------------------------------------------------------------
(* Engine B actions *)

\* table_create(name, schema_sql)
TableCreate(schema) ==
    /\ ~crashed /\ ~tbl.live
    /\ LET p == table_parse_schema(schema)
       IN  IF ~p.ok
           THEN /\ ret' = [op |-> "create", val |-> FALSE]
                /\ UNCHANGED <<file, tbl, appended>>
           ELSE /\ file' = [exists |-> TRUE, size |-> INITIAL_FILE_SIZE,
                            hdr |-> [magic_ok |-> TRUE, version |-> TABLE_VERSION,
                                     row_size |-> p.row_size, num_rows |-> 0,
                                     column_count |-> Len(p.cols),
                                     columns |-> p.cols],
                            mem |-> EmptyMem]
                /\ tbl' = [live |-> TRUE, mapped |-> TRUE,
                           mapped_size |-> INITIAL_FILE_SIZE,
                           write_offset |-> TABLE_HEADER_SIZE,
                           rows_since_sync |-> 0]
                /\ appended' = <<>>
                /\ ret' = [op |-> "create", val |-> TRUE]
    /\ sink' = <<>>
    /\ snap' = [valid |-> FALSE]
    /\ UNCHANGED <<crashed, envfail, codec>>

\* table_open that leaves the write position at the end of the header
table_open_at_header(f) ==
    IF ~f.exists \/ f.size < TABLE_HEADER_SIZE
       \/ ~f.hdr.magic_ok \/ f.hdr.version # TABLE_VERSION
    THEN NoTable
    ELSE [live |-> TRUE, mapped |-> TRUE, mapped_size |-> f.size,
          write_offset |-> TABLE_HEADER_SIZE, rows_since_sync |-> 0]

\* table_open(name): the handle, or NoTable for null
table_open(f) ==
    IF ~f.exists \/ f.size < TABLE_HEADER_SIZE
       \/ ~f.hdr.magic_ok \/ f.hdr.version # TABLE_VERSION
    THEN NoTable
    ELSE [live |-> TRUE, mapped |-> TRUE, mapped_size |-> f.size,
          write_offset |-> TABLE_HEADER_SIZE + f.hdr.num_rows * f.hdr.row_size,
          rows_since_sync |-> 0]

\* table_open(name)
TableOpen ==
    /\ ~crashed /\ ~tbl.live
    /\ tbl' = table_open(file)
    /\ ret' = [op |-> "open", val |-> tbl'.live]
    /\ sink' = <<>>
    /\ UNCHANGED <<file, crashed, appended, snap, envfail, codec>>

\* what a table_select on the handle would deliver (history only)
Snapshot ==
    IF ~tbl.mapped THEN [valid |-> FALSE]
    ELSE [valid |-> TRUE, num_rows |-> file.hdr.num_rows,
          column_count |-> file.hdr.column_count,
          row_size |-> file.hdr.row_size, columns |-> file.hdr.columns,
          write_offset |-> tbl.write_offset,
          rows |-> table_select(tbl, file, "").rows]

\* table_close(table)
TableClose ==
    /\ ~crashed /\ tbl.live
    /\ snap' = Snapshot
    /\ tbl' = NoTable
    /\ ret' = [op |-> "close", val |-> TRUE]
    /\ sink' = <<>>
    /\ UNCHANGED <<file, crashed, appended, envfail, codec>>

\* table_append_row(table, values); the history of appended values is kept
\* by the scenarios that need it
TableAppend(values, elapsed, ft_ok, mm_ok, ms_ok) ==
    /\ ~crashed /\ tbl.live
    /\ LET r == table_append_row(tbl, file, values, elapsed, ft_ok, mm_ok, ms_ok)
       IN  /\ crashed' = r.fault
           /\ tbl' = r.tbl
           /\ file' = r.file
           /\ ret' = [op |-> "append", val |-> r.ok]
           /\ envfail' = (envfail \/ (~r.ok /\ ~r.fault /\ ~r.tbl.mapped))
    /\ sink' = <<>>
    /\ snap' = [valid |-> FALSE]
    /\ UNCHANGED codec

\* table_flush(table)
TableFlush(ms_ok) ==
    /\ ~crashed /\ tbl.live
    /\ LET r == table_flush(tbl, ms_ok)
       IN  /\ tbl' = r.tbl
           /\ ret' = [op |-> "flush", val |-> r.ok]
    /\ sink' = <<>>
    /\ UNCHANGED <<file, crashed, appended, snap, envfail, codec>>

\* table_select(table, where_clause, callback, ctx)
TableSelect(where_clause) ==
    /\ ~crashed /\ tbl.live
    /\ LET r == table_select(tbl, file, where_clause)
       IN  /\ crashed' = r.fault
           /\ sink' = r.rows
           /\ ret' = [op |-> "select", val |-> ~r.fault]
    /\ UNCHANGED <<file, tbl, appended, snap, envfail, codec>>

-----------------------------------------------------------------------------
(* Pack/unpack harness: the row buffer is a slot of mapped memory, as in   *)
(* table_append_row and table_select.                                      *)

CodecIdle == [cols |-> <<>>, row_size |-> 0, values |-> <<>>, out |-> <<>>,
              done |-> FALSE]

CodecApply ==
    /\ ~codec.done /\ codec.cols # <<>>
    /\ LET p == table_pack_row(codec.cols, codec.row_size, codec.values, EmptyMem, 0)
           u == table_unpack_row(codec.cols, p.m, 0)
       IN  codec' = [codec EXCEPT !.out = u.values, !.done = p.ok /\ u.ok]
    /\ UNCHANGED varsB

-----------------------------------------------------------------------------
(* Inputs *)

\* the 8-byte image of a small non-negative integer, and of -1
I64(n)  == <<n, 0, 0, 0, 0, 0, 0, 0>>
MINUS1  == <<255, 255, 255, 255, 255, 255, 255, 255>>

Item(name, kw, has_arg, arg) ==
    [fields |-> 2, name |-> name, kw |-> kw, has_arg |-> has_arg, arg |-> arg]

SchemaIdName == [paren |-> TRUE,
                 items |-> <<Item("id", "INTEGER", FALSE, 0),
                             Item("name", "TEXT", TRUE, 4)>>]
SchemaZeroText == [paren |-> TRUE,
                   items |-> <<Item("a", "TEXT", TRUE, 0),
                               Item("b", "INTEGER", FALSE, 0)>>]
SchemaReal == [paren |-> TRUE,
               items |-> <<Item("x", "REAL", FALSE, 0),
                           Item("t", "TEXT", TRUE, 1)>>]
SchemaBlob == [paren |-> TRUE,
               items |-> <<Item("id", "INTEGER", FALSE, 0),
                           Item("b", "BLOB", FALSE, 0)>>]
SchemaWide == [paren |-> TRUE,
               items |-> [i \in 1..MAX_COLUMNS |-> Item("c", "TEXT", TRUE, 255)]]

SchemaThree == [paren |-> TRUE,
                items |-> <<Item("k", "INTEGER", FALSE, 0),
                            Item("s", "TEXT", TRUE, 3),
                            Item("z", "TEXT", FALSE, 0)>>]

SmallSchemas == {SchemaIdName, SchemaZeroText, SchemaReal, SchemaBlob}
CodecSchemas == {SchemaIdName, SchemaZeroText, SchemaReal, SchemaThree}
GrowSchemas  == {SchemaWide, SchemaBlob}

Texts == {<<97>>, <<97, 98, 99>>, <<97, 98, 99, 100>>,
          <<97, 98, 99, 100, 101, 102, 103, 104, 105>>}

\* the values a caller builds for a column of the given type
ColumnValues(col, texts) ==
    IF col.type = COL_TYPE_INTEGER
    THEN {value_integer(I64(5)), value_null}
    ELSE IF col.type = COL_TYPE_REAL
    THEN {value_real(<<0, 0, 0, 0, 0, 0, 248, 63>>)}
    ELSE {value_text(s) : s \in texts} \cup {value_null}

\* the value vectors matching a column layout
VectorsFor(cols, texts) ==
    {v \in [1..Len(cols) -> UNION {ColumnValues(cols[i], texts) : i \in 1..Len(cols)}] :
        \A i \in 1..Len(cols) : v[i] \in ColumnValues(cols[i], texts)}

SmallTexts == {<<97>>, <<97, 98, 99, 100, 101, 102, 103, 104, 105>>}

SmallValues(cols) == VectorsFor(cols, SmallTexts)
CodecValues(cols) == VectorsFor(cols, Texts) \cup {[i \in 1..Len(cols) |->
                        IF cols[i].type = COL_TYPE_INTEGER
                        THEN value_integer(MINUS1) ELSE value_null]}

GrowValues(cols) == {[i \in 1..Len(cols) |-> value_null]}

-----------------------------------------------------------------------------
(***************************************************************************)
(* Engine A.  A database file is [size, mem]; every handle maps its file   *)
(* MAP_SHARED, so a store through a mapping is a store into the file.  A   *)
(* pointer is a byte address; an address belongs to the mapping that       *)
(* covers it at the time of the access, and to nothing when no mapping     *)
(* covers it (the access then faults).  mmap places a mapping at the       *)
(* lowest or at the highest free range, as the kernel decides.             *)
(***************************************************************************)

(* pager.h, storage.h, storage.c, db.h, btree.h, btree.c, query.c *)
PAGE_SIZE                  == 4096
TABLE_MAX_PAGES            == 1000
TYPE_NULL                  == 0
TYPE_INTEGER               == 1
TYPE_REAL                  == 2
TYPE_TEXT                  == 3
ALIGN_SIZE                 == 8
MAX_TEXT_SIZE              == 255
PAGE_HEADER_SIZE           == 8
BTREE_ORDER                == 255
BTREE_NODE_TYPE_LEAF       == 15
NODE_HEADER_SIZE           == 12
ROWID_SIZE                 == 8
SIMD_MIN_ROWS              == 100
RISTRETTO_OK               == 0
RISTRETTO_ERROR            == 0 - 1
RISTRETTO_PARSE_ERROR      == 0 - 4
RISTRETTO_NOT_FOUND        == 0 - 5
RISTRETTO_CONSTRAINT_ERROR == 0 - 6

NULL == 0

-----------------------------------------------------------------------------
(* Integers as the machine holds them *)

\* a uint32_t read from four little-endian bytes
U32(b) == b[1] + 256 * b[2] + 65536 * b[3] + 16777216 * b[4]

\* the four little-endian bytes of a small unsigned number
U32Bytes(n) == <<n % 256, (n \div 256) % 256, (n \div 65536) % 256,
                 (n \div 16777216) % 256>>

\* a < b for two uint32_t given as bytes
U32Lt(a, b) ==
    \E i \in 1..4 : /\ a[i] < b[i]
                    /\ \A j \in (i + 1)..4 : a[j] = b[j]

\* a < b for two int64_t given as bytes
I64Lt(a, b) ==
    LET na == a[8] >= 128
        nb == b[8] >= 128
    IN  IF na # nb THEN na
        ELSE \E i \in 1..8 : /\ a[i] < b[i]
                             /\ \A j \in (i + 1)..8 : a[j] = b[j]

\* x * 10 + d on 8 little-endian bytes, modulo 2^64
RECURSIVE MulAdd10(_, _, _)
MulAdd10(b, i, carry) ==
    IF i > Len(b) THEN <<>>
    ELSE LET v == b[i] * 10 + carry
         IN  <<v % 256>> \o MulAdd10(b, i + 1, v \div 256)

\* -x on 8 little-endian bytes
RECURSIVE Negate(_, _, _)
Negate(b, i, carry) ==
    IF i > Len(b) THEN <<>>
    ELSE LET v == (255 - b[i]) + carry
         IN  <<v % 256>> \o Negate(b, i + 1, v \div 256)

\* strtoll(start, &end, 10) of an optional sign and decimal digits
RECURSIVE StrtollDigits(_, _, _)
StrtollDigits(digits, i, acc) ==
    IF i > Len(digits) THEN acc
    ELSE StrtollDigits(digits, i + 1, MulAdd10(acc, 1, digits[i] - 48))

strtoll(s) ==
    IF s # <<>> /\ s[1] = 45
    THEN Negate(StrtollDigits(Tail(s), 1, ZERO8), 1, 1)
    ELSE StrtollDigits(s, 1, ZERO8)


\* quotient (big-endian bytes, after q) and remainder of a big-endian number
\* by 10
RECURSIVE DivMod10(_, _, _, _)
DivMod10(be, i, rem, q) ==
    IF i > Len(be) THEN [q |-> q, r |-> rem]
    ELSE DivMod10(be, i + 1, (rem * 256 + be[i]) % 10,
                  Append(q, (rem * 256 + be[i]) \div 10))

\* the decimal digits of a big-endian number, before the digits acc
RECURSIVE DecimalDigits(_, _)
RECURSIVE NextDigit(_, _)
DecimalDigits(be, acc) ==
    IF \A i \in 1..Len(be) : be[i] = 0 THEN acc
    ELSE NextDigit(DivMod10(be, 1, 0, <<>>), acc)

NextDigit(d, acc) == DecimalDigits(d.q, <<48 + d.r>> \o acc)

Reverse(s) == [i \in 1..Len(s) |-> s[Len(s) + 1 - i]]


SignedDigits(neg, ds) ==
    IF ds = <<>> THEN <<48>>
    ELSE IF neg THEN <<45>> \o ds ELSE ds

\* snprintf(str, 32, "%lld", v)
FormatI64(b) ==
    SignedDigits(b[8] >= 128,
                 DecimalDigits(Reverse(IF b[8] >= 128 THEN Negate(b, 1, 1) ELSE b), <<>>))

-----------------------------------------------------------------------------
(* Address space and pager (pager.c) *)

Handles   == {1, 2}
FileNames == {"a.db", "b.db"}

NoPages == [x \in {} |-> 0]

\* a RistrettoDB slot before its first ristretto_open
NoHandle == [state |-> "none", gen |-> 0, fname |-> "", policy |-> "", base |-> 0,
             file_size |-> 0, mapped_size |-> 0, num_pages |-> 0,
             pages |-> NoPages]

\* the page-aligned addresses of the process
Addresses == {k * PAGE_SIZE : k \in 1..AddrPages}

\* an address no mapping ever covers (MAP_FAILED plus an offset)
BadPtr == (AddrPages + 2) * PAGE_SIZE

Covers(d, a) ==
    d.state = "open" /\ d.base <= a /\ a < d.base + d.mapped_size

MappedAt(dbs, a) == {h \in Handles : Covers(dbs[h], a)}

\* the file bytes a page pointer addresses, or no mapping at all
Target(w, p) ==
    LET H == MappedAt(w.db, p)
    IN  IF H = {} THEN [ok |-> FALSE, fname |-> "", off |-> 0]
        ELSE LET h == CHOOSE x \in H : TRUE
             IN  [ok |-> TRUE, fname |-> w.db[h].fname, off |-> p - w.db[h].base]


\* the addresses at which size bytes are free
FreeRanges(dbs, size) ==
    {b \in Addresses :
        \A k \in 0..((size \div PAGE_SIZE) - 1) :
            /\ b + k * PAGE_SIZE \in Addresses
            /\ MappedAt(dbs, b + k * PAGE_SIZE) = {}}

Lowest(S)  == CHOOSE b \in S : \A c \in S : b <= c
Highest(S) == CHOOSE b \in S : \A c \in S : b >= c

Place(F, policy, above) ==
    IF policy = "low" THEN Lowest(F)
    ELSE IF policy = "high" THEN Highest(F)
    ELSE Lowest({b \in F : b >= above})

\* mmap(NULL, size, ...): the lowest free range, the highest free range, or
\* the lowest free range above the mapping just removed
mmap(dbs, size, policy, above) == Place(FreeRanges(dbs, size), policy, above)

RoundUpPage(n) == ((n + PAGE_SIZE - 1) \div PAGE_SIZE) * PAGE_SIZE

\* mapped_file_open + pager_open
pager_open(w, h, filename, policy) ==
    LET fsz == Max(w.disk[filename].size, PAGE_SIZE)      \* ensure_file_size
        msz == RoundUpPage(fsz)
        b   == mmap(w.db, msz, policy, 0)
        n   == fsz \div PAGE_SIZE
    IN  [disk |-> [w.disk EXCEPT ![filename].size = fsz],
         db   |-> [w.db EXCEPT ![h] =
                     [state |-> "open", gen |-> @.gen + 1, fname |-> filename,
                      policy |-> policy,
                      base |-> b, file_size |-> fsz, mapped_size |-> msz,
                      num_pages |-> IF n = 0 THEN 1 ELSE n,
                      pages |-> NoPages]]]

\* pager_close: the mapping goes, the freed structures keep their bytes
pager_close(w, h) == [w EXCEPT !.db[h].state = "closed"]

\* mapped_file_resize: unmap, extend the file, map again
mapped_file_resize(w, h, new_size) ==
    LET d == w.db[h]
    IN  IF new_size <= d.mapped_size
        THEN [w EXCEPT !.db[h].file_size = new_size]
        ELSE LET unmapped == [w.db EXCEPT ![h].mapped_size = 0]     \* munmap
                 msz      == RoundUpPage(new_size)
                 b        == mmap(unmapped, msz, d.policy, d.base + d.mapped_size)
             IN  [disk |-> [w.disk EXCEPT ![d.fname].size = Max(@, new_size)],
                  db   |-> [w.db EXCEPT ![h].file_size = new_size,
                                        ![h].mapped_size = msz,
                                        ![h].base = b]]


\* pager_get_page from "if (!pager->pages[page_num])": the entry is computed
\* from the mapping's base and kept
pager_cache_page(w1, h, page_num) ==
    [w |-> [w1 EXCEPT !.db[h].pages =
                  (page_num :> (w1.db[h].base + page_num * PAGE_SIZE)) @@ @],
     page |-> w1.db[h].base + page_num * PAGE_SIZE]

\* pager_get_page; on a freed pager (closed handle) the cached entry or the
\* stale data pointer is what the freed bytes still hold
pager_get_page(w, h, page_num) ==
    LET d == w.db[h]
    IN  IF page_num >= TABLE_MAX_PAGES THEN [w |-> w, page |-> NULL]
        ELSE IF page_num \in DOMAIN d.pages
        THEN [w |-> w, page |-> d.pages[page_num]]
        ELSE IF d.state # "open"
        THEN [w |-> w,
              page |-> IF page_num >= d.num_pages THEN BadPtr
                       ELSE d.base + page_num * PAGE_SIZE]
        ELSE pager_cache_page(
                 IF page_num >= d.num_pages
                 THEN [mapped_file_resize(w, h, (page_num + 1) * PAGE_SIZE)
                          EXCEPT !.db[h].num_pages = page_num + 1]
                 ELSE w,
                 h, page_num)

\* pager_allocate_page after its pager_get_page: the memset of the new page
ZeroPage(g, t, n) ==
    IF g.page = NULL THEN [w |-> g.w, page_num |-> n, fault |-> FALSE]
    ELSE IF ~t.ok THEN [w |-> g.w, page_num |-> n, fault |-> TRUE]
    ELSE [w |-> [g.w EXCEPT !.disk[t.fname].mem = memset0(@, t.off, PAGE_SIZE)],
          page_num |-> n, fault |-> FALSE]

\* a page pointer and what it addresses
Resolve(g) == Target(g.w, g.page)

ZeroPageOf(g, n) == ZeroPage(g, Resolve(g), n)

\* pager_allocate_page
pager_allocate_page(w, h) ==
    ZeroPageOf(pager_get_page(w, h, w.db[h].num_pages), w.db[h].num_pages)

\* stores and loads through a resolved page pointer
Store(w, t, off, bytes) ==
    [w EXCEPT !.disk[t.fname].mem = memcpy(@, t.off + off, bytes)]
Load(w, t, off, n) == RdBytes(w.disk[t.fname].mem, t.off + off, n)

-----------------------------------------------------------------------------
(* Tables, rows and values (storage.c) *)

NoIndex == [present |-> FALSE, pager |-> 0, root_page |-> 0]

get_type_size(type) ==
    CASE type = TYPE_INTEGER -> 8
      [] type = TYPE_REAL    -> 8
      [] type = TYPE_TEXT    -> MAX_TEXT_SIZE + 1
      [] OTHER               -> 0

align_offset(offset) == ((offset + ALIGN_SIZE - 1) \div ALIGN_SIZE) * ALIGN_SIZE

\* strncpy(dest, src, n) followed by dest[n] = 0
strncpy(src, n) == IF Len(src) > n THEN SubSeq(src, 1, n) ELSE src

storage_table_create(name) ==
    [name |-> strncpy(name, 63), column_count |-> 0, columns |-> <<>>, row_size |-> 0,
     root_page |-> 0, row_count |-> 0, next_row_id |-> 1,
     primary_index |-> NoIndex]

storage_table_add_column(table, name, type) ==
    LET off == align_offset(table.row_size)
        col == [name |-> strncpy(name, 31), type |-> type, size |-> get_type_size(type),
                offset |-> off]
    IN  [table EXCEPT !.columns = Append(@, col),
                      !.row_size = off + col.size,
                      !.column_count = @ + 1]

\* a Value of the parser and of storage: [type, integer, text]
IntegerValue(b8) == [type |-> TYPE_INTEGER, integer |-> b8, text |-> <<>>]
TextValue(s)     == [type |-> TYPE_TEXT, integer |-> ZERO8, text |-> s]
NullValue        == [type |-> TYPE_NULL, integer |-> ZERO8, text |-> <<>>]

\* storage_row_set_value on the row buffer m
storage_row_set_value(m, table, col_index, value) ==
    LET col == table.columns[col_index]
    IN  IF col.type = TYPE_INTEGER /\ value.type = TYPE_INTEGER
        THEN memcpy(m, col.offset, value.integer)
        ELSE IF col.type = TYPE_TEXT /\ value.type = TYPE_TEXT
        THEN LET copy_len == Min(Len(value.text), MAX_TEXT_SIZE)
             IN  memcpy(m, col.offset, SubSeq(value.text, 1, copy_len) \o <<0>>)
        ELSE m

RECURSIVE SetValues(_, _, _, _)
SetValues(m, table, values, i) ==
    IF i > Len(values) THEN m
    ELSE SetValues(storage_row_set_value(m, table, i, values[i]), table, values, i + 1)

\* storage_row_create + the storage_row_set_value loop: the row's bytes
RowBytes(table, values) ==
    RdBytes(SetValues(EmptyMem, table, values, 1), 0, table.row_size)


\* the length of the text at 0-based offset off of a row, up to max_len
RowTextLen(row, off, max_len) ==
    Lowest({i \in 0..max_len : i = max_len \/ row[off + 1 + i] = 0})

\* storage_row_get_value on the bytes of a row
storage_row_get_value(row, table, col_index) ==
    LET col == table.columns[col_index]
    IN  IF col.type = TYPE_INTEGER
        THEN IntegerValue(SubSeq(row, col.offset + 1, col.offset + 8))
        ELSE IF col.type = TYPE_TEXT
        THEN TextValue(SubSeq(row, col.offset + 1,
                              col.offset + RowTextLen(row, col.offset,
                                                      IF col.size > 0 THEN col.size - 1
                                                      ELSE 0)))
        ELSE [type |-> col.type, integer |-> ZERO8, text |-> <<>>]


NoRowId == [page_id |-> 0, offset |-> 0]

\* table_insert_row that counts the row it found no room for
InsertAt_counts_refused(w, t, rc, table, page_num, row) ==
    IF PAGE_HEADER_SIZE + rc * table.row_size + table.row_size > PAGE_SIZE
    THEN [w |-> w, table |-> [table EXCEPT !.root_page = page_num, !.row_count = @ + 1],
          fault |-> FALSE, row_id |-> NoRowId]
    ELSE [w |-> Store(Store(w, t, PAGE_HEADER_SIZE + rc * table.row_size, row),
                      t, 4, U32Bytes(rc + 1)),
          table |-> [table EXCEPT !.root_page = page_num, !.row_count = @ + 1],
          fault |-> FALSE,
          row_id |-> [page_id |-> page_num,
                      offset |-> (PAGE_HEADER_SIZE + rc * table.row_size) % 65536]]

\* table_insert_row from "Copy row data to page": the row_count'th slot of
\* the page at t
InsertAt(w, t, rc, table, page_num, row) ==
    IF PAGE_HEADER_SIZE + rc * table.row_size + table.row_size > PAGE_SIZE
    THEN [w |-> w, table |-> [table EXCEPT !.root_page = page_num],
          fault |-> FALSE, row_id |-> NoRowId]
    ELSE [w |-> Store(Store(w, t, PAGE_HEADER_SIZE + rc * table.row_size, row),
                      t, 4, U32Bytes(rc + 1)),
          table |-> [table EXCEPT !.root_page = page_num, !.row_count = @ + 1],
          fault |-> FALSE,
          row_id |-> [page_id |-> page_num,
                      offset |-> (PAGE_HEADER_SIZE + rc * table.row_size) % 65536]]

InsertThrough(w, t, table, page_num, row) ==
    IF ~t.ok
    THEN [w |-> w, table |-> table, fault |-> TRUE, row_id |-> NoRowId]
    ELSE InsertAt(w, t, U32(Load(w, t, 4, 4)), table, page_num, row)

\* table_insert_row from the second pager_get_page
InsertIntoPage(g, table, page_num, row) ==
    InsertThrough(g.w, Resolve(g), table, page_num, row)

\* table_insert_row, the header of a page just allocated
InitHeader(g0, t0, a, table, h, row) ==
    IF a.fault \/ ~t0.ok
    THEN [w |-> g0.w, table |-> table, fault |-> TRUE, row_id |-> NoRowId]
    ELSE InsertIntoPage(pager_get_page(Store(g0.w, t0, 0, ZERO8), h, a.page_num),
                        table, a.page_num, row)

InitHeaderOf(g0, a, table, h, row) == InitHeader(g0, Resolve(g0), a, table, h, row)

InsertNewPage(a, table, h, row) ==
    InitHeaderOf(pager_get_page(a.w, h, a.page_num), a, table, h, row)

\* table_insert_row through the pager of handle h
table_insert_row(w, table, h, row) ==
    IF table.root_page = 0
    THEN InsertNewPage(pager_allocate_page(w, h), table, h, row)
    ELSE InsertIntoPage(pager_get_page(w, h, table.root_page), table,
                        table.root_page, row)

ReadRow(w, page, t, table, row_id) ==
    IF page = NULL THEN [w |-> w, fault |-> FALSE, row |-> <<>>, found |-> FALSE]
    ELSE IF ~t.ok THEN [w |-> w, fault |-> TRUE, row |-> <<>>, found |-> FALSE]
    ELSE [w |-> w, fault |-> FALSE, found |-> TRUE,
          row |-> Load(w, t, row_id.offset, table.row_size)]

ReadRowOf(g, table, row_id) == ReadRow(g.w, g.page, Resolve(g), table, row_id)

\* table_get_row through the pager of handle h
table_get_row(w, table, h, row_id) ==
    ReadRowOf(pager_get_page(w, h, row_id.page_id), table, row_id)

\* the rows table_scanner_next copies out of the page at t
ScanPage(w, page, t, table, limit) ==
    IF page = NULL THEN [w |-> w, fault |-> FALSE, rows |-> <<>>]
    ELSE IF ~t.ok THEN [w |-> w, fault |-> TRUE, rows |-> <<>>]
    ELSE [w |-> w, fault |-> FALSE,
          rows |-> [k \in 1..Min(Min(table.row_count, limit), U32(Load(w, t, 4, 4))) |->
                      Load(w, t, PAGE_HEADER_SIZE + (k - 1) * table.row_size,
                           table.row_size)]]

ScanPageOf(g, table, limit) == ScanPage(g.w, g.page, Resolve(g), table, limit)

\* table_scanner_create and the table_scanner_next loop: the rows a scan
\* returns, at most limit of them
ScanTable(w, table, h, limit) ==
    IF table.row_count = 0 \/ limit = 0
    THEN [w |-> w, fault |-> FALSE, rows |-> <<>>]
    ELSE ScanPageOf(pager_get_page(w, h, table.root_page), table, limit)

-----------------------------------------------------------------------------
(* The primary index (btree.c).  A node is one page: NodeHeader            *)
(* {node_type @0, is_root @1, parent_page_num @4, num_keys @8}, then 254   *)
(* uint32_t keys, then 254 RowId {page_id @0, offset @4}.                  *)

KeysOffset   == NODE_HEADER_SIZE
ValuesOffset == NODE_HEADER_SIZE + 4 * (BTREE_ORDER - 1)


NodeAt(w, g, t, btree, uaf) ==
    IF w.db[btree.pager].state # "open" /\ uaf = "fault"
    THEN [w |-> w, fault |-> TRUE, t |-> t]
    ELSE [w |-> g.w, fault |-> ~t.ok, t |-> t]

NodeOf(w, g, btree, uaf) == NodeAt(w, g, Resolve(g), btree, uaf)

\* get_node: the page through the pager the index was created with; a
\* freed pager may also be unreadable
get_node(w, btree, uaf) ==
    NodeOf(w, pager_get_page(w, btree.pager, btree.root_page), btree, uaf)

\* initialize_node on the page at t
InitNode(w, t, a, h) ==
    IF a.fault \/ ~t.ok
    THEN [w |-> w, fault |-> TRUE, btree |-> NoIndex]
    ELSE [w |-> Store(w, t, 0,
                      <<BTREE_NODE_TYPE_LEAF, 1, Rd(w.disk[t.fname].mem, t.off + 2),
                        Rd(w.disk[t.fname].mem, t.off + 3)>>
                      \o U32Bytes(0) \o U32Bytes(0)),
          fault |-> FALSE,
          btree |-> [present |-> TRUE, pager |-> h, root_page |-> a.page_num]]

InitNodeOf(g, a, h) == InitNode(g.w, Resolve(g), a, h)

CreateRoot(a, h) == InitNodeOf(pager_get_page(a.w, h, a.page_num), a, h)

\* btree_create through the pager of handle h
btree_create(w, h) == CreateRoot(pager_allocate_page(w, h), h)

NodeKey(w, t, i) == Load(w, t, KeysOffset + 4 * i, 4)

\* find_child_index: binary search for the first key >= key
RECURSIVE find_child_index(_, _, _, _, _)
find_child_index(w, t, key, left, right) ==
    IF left < right
    THEN LET mid == (left + right) \div 2
         IN  IF ~U32Lt(NodeKey(w, t, mid), key)
             THEN find_child_index(w, t, key, left, mid)
             ELSE find_child_index(w, t, key, mid + 1, right)
    ELSE left

RowIdBytes(row_id) ==
    U32Bytes(row_id.page_id) \o <<row_id.offset % 256, row_id.offset \div 256, 0, 0>>


\* leaf_node_insert from the memmove: the entries from index on move up by
\* one and the new entry takes their place
LeafShift(w, t, key, value, num_keys, index) ==
    IF index < num_keys /\ NodeKey(w, t, index) = key
    THEN [w |-> w, fault |-> FALSE, ok |-> FALSE]
    ELSE [w |-> Store(
                  Store(
                    Store(
                      Store(
                        Store(w, t, KeysOffset + 4 * (index + 1),
                              Load(w, t, KeysOffset + 4 * index, 4 * (num_keys - index))),
                        t, ValuesOffset + ROWID_SIZE * (index + 1),
                        Load(w, t, ValuesOffset + ROWID_SIZE * index,
                             ROWID_SIZE * (num_keys - index))),
                      t, KeysOffset + 4 * index, key),
                    t, ValuesOffset + ROWID_SIZE * index, SubSeq(RowIdBytes(value), 1, 6)),
                  t, 8, U32Bytes(num_keys + 1)),
          fault |-> FALSE, ok |-> TRUE]

LeafInsert(w, t, key, value, num_keys) ==
    IF num_keys >= BTREE_ORDER - 1 THEN [w |-> w, fault |-> FALSE, ok |-> FALSE]
    ELSE LeafShift(w, t, key, value, num_keys,
                   find_child_index(w, t, key, 0, num_keys))

\* leaf_node_insert on the node at t
leaf_node_insert(w, t, key, value) ==
    LeafInsert(w, t, key, value, U32(Load(w, t, 8, 4)))

InsertInNode(n, key, value) ==
    IF n.fault THEN [w |-> n.w, fault |-> TRUE, ok |-> FALSE]
    ELSE IF Rd(n.w.disk[n.t.fname].mem, n.t.off) = BTREE_NODE_TYPE_LEAF
    THEN leaf_node_insert(n.w, n.t, key, value)
    ELSE [w |-> n.w, fault |-> FALSE, ok |-> FALSE]

\* btree_insert
btree_insert(w, btree, key, value, uaf) ==
    InsertInNode(get_node(w, btree, uaf), key, value)

\* leaf_node_find: the value at index when the key there is the key sought
LeafFind(w, t, key, num_keys, index) ==
    IF index < num_keys /\ NodeKey(w, t, index) = key
    THEN [w |-> w, fault |-> FALSE, found |-> TRUE,
          row_id |-> [page_id |-> U32(Load(w, t, ValuesOffset + ROWID_SIZE * index, 4)),
                      offset  |-> Rd(w.disk[t.fname].mem,
                                     t.off + ValuesOffset + ROWID_SIZE * index + 4)
                                  + 256 * Rd(w.disk[t.fname].mem,
                                             t.off + ValuesOffset + ROWID_SIZE * index + 5)]]
    ELSE [w |-> w, fault |-> FALSE, found |-> FALSE, row_id |-> NoRowId]

leaf_node_find(w, t, key, num_keys) ==
    LeafFind(w, t, key, num_keys, find_child_index(w, t, key, 0, num_keys))

FindInNode(n, key) ==
    IF n.fault THEN [w |-> n.w, fault |-> TRUE, found |-> FALSE, row_id |-> NoRowId]
    ELSE IF Rd(n.w.disk[n.t.fname].mem, n.t.off) = BTREE_NODE_TYPE_LEAF
    THEN leaf_node_find(n.w, n.t, key, U32(Load(n.w, n.t, 8, 4)))
    ELSE [w |-> n.w, fault |-> FALSE, found |-> FALSE, row_id |-> NoRowId]

\* btree_find (leaf_node_find on a leaf root)
btree_find(w, btree, key, uaf) == FindInNode(get_node(w, btree, uaf), key)

-----------------------------------------------------------------------------
(* Statements, plans and execution (parser.c, query.c, db.c).  A statement *)
(* is the parsed form [type, table_name, columns, values, where]; literals *)
(* are carried as their SQL tokens and converted by parse_value.  REAL     *)
(* columns and literals are outside the modelled inputs.                   *)

\* parse_value: a token [kind, s] to a Value
parse_value(tok) ==
    IF tok.kind = "text" THEN TextValue(tok.s)
    ELSE IF tok.kind = "int" THEN IntegerValue(strtoll(tok.s))
    ELSE NullValue

NoLeaf == [type |-> "none", column |-> "", literal |-> [kind |-> "null", s |-> <<>>]]
NoExpr == [type |-> "none", op |-> "", left |-> NoLeaf, right |-> NoLeaf]

\* find_table: the position of the first catalog entry of that name, or 0
find_table(cat, name) ==
    LET S == {i \in 1..Len(cat) : cat[i].name = name}
    IN  IF S = {} THEN 0 ELSE CHOOSE i \in S : \A j \in S : i <= j

\* register_table
register_table(cat, table) == Append(cat, [table EXCEPT !.name = strncpy(@, 63)])

\* can_use_primary_index
can_use_primary_index(filter, table) ==
    /\ filter.type # "none" /\ table.column_count # 0
    /\ table.columns[1].type = TYPE_INTEGER
    /\ filter.type = "binary" /\ filter.op = "="
    /\ \/ /\ filter.left.type = "column" /\ filter.right.type = "literal"
          /\ filter.left.column = table.columns[1].name
          /\ parse_value(filter.right.literal).type = TYPE_INTEGER
       \/ /\ filter.right.type = "column" /\ filter.left.type = "literal"
          /\ filter.right.column = table.columns[1].name
          /\ parse_value(filter.left.literal).type = TYPE_INTEGER

\* can_use_simd_filter
can_use_simd_filter(filter, table) ==
    /\ filter.type = "binary" /\ table.column_count # 0
    /\ \/ /\ filter.left.type = "column" /\ filter.right.type = "literal"
          /\ \E i \in 1..table.column_count :
                /\ table.columns[i].name = filter.left.column
                /\ table.columns[i].type = TYPE_INTEGER
                /\ parse_value(filter.right.literal).type = TYPE_INTEGER
                /\ filter.op \in {"=", ">", "<"}
       \/ /\ ~(filter.left.type = "column" /\ filter.right.type = "literal")
          /\ filter.right.type = "column" /\ filter.left.type = "literal"
          /\ \E i \in 1..table.column_count :
                /\ table.columns[i].name = filter.right.column
                /\ table.columns[i].type = TYPE_INTEGER
                /\ parse_value(filter.left.literal).type = TYPE_INTEGER
                /\ filter.op \in {"=", ">", "<"}

\* plan_statement: the plan type and the catalog position of its table;
\* type "null" is the NULL plan
plan_statement(stmt, cat) ==
    IF stmt.type = "create" THEN [type |-> "PLAN_CREATE_TABLE", table |-> 0]
    ELSE IF stmt.type = "show_tables" THEN [type |-> "PLAN_SHOW_TABLES", table |-> 0]
    ELSE LET i == find_table(cat, stmt.table_name)
         IN  IF i = 0 THEN [type |-> "null", table |-> 0]
             ELSE IF stmt.type = "insert" THEN [type |-> "PLAN_INSERT", table |-> i]
             ELSE IF stmt.type = "describe" THEN [type |-> "PLAN_DESCRIBE", table |-> i]
             ELSE IF stmt.type = "show_create_table"
             THEN [type |-> "PLAN_SHOW_CREATE_TABLE", table |-> i]
             ELSE IF cat[i].primary_index.present /\ stmt.where.type # "none"
                     /\ can_use_primary_index(stmt.where, cat[i])
             THEN [type |-> "PLAN_INDEX_SCAN", table |-> i]
             ELSE [type |-> "PLAN_TABLE_SCAN", table |-> i]

Done(w, cat, result, rows, fault) ==
    [w |-> w, catalog |-> cat, result |-> result, rows |-> rows, fault |-> fault]

RECURSIVE AddColumns(_, _, _)
AddColumns(table, columns, i) ==
    IF i > Len(columns) THEN table
    ELSE AddColumns(storage_table_add_column(table, columns[i].name, columns[i].type),
                    columns, i + 1)


\* execute_create_table from btree_create on
RegisterIndexed(b, cat, table) ==
    IF b.fault THEN Done(b.w, cat, RISTRETTO_ERROR, <<>>, TRUE)
    ELSE Done(b.w, register_table(cat, [table EXCEPT !.primary_index = b.btree]),
              RISTRETTO_OK, <<>>, FALSE)

CreateTable(w, cat, h, table) ==
    IF ~\E i \in 1..table.column_count : table.columns[i].type = TYPE_INTEGER
    THEN Done(w, register_table(cat, table), RISTRETTO_OK, <<>>, FALSE)
    ELSE RegisterIndexed(btree_create(w, h), cat, table)

\* execute_create_table
execute_create_table(w, cat, h, stmt) ==
    IF find_table(cat, stmt.table_name) # 0
    THEN Done(w, cat, RISTRETTO_CONSTRAINT_ERROR, <<>>, FALSE)
    ELSE CreateTable(w, cat, h,
                     AddColumns(storage_table_create(stmt.table_name), stmt.columns, 1))

\* execute_insert after btree_insert: its result is not looked at
IndexedRow(idx, cat1) == Done(idx.w, cat1, RISTRETTO_OK, <<>>, idx.fault)

\* execute_insert from table_insert_row on
InsertedRow(ins, cat, ti, key, uaf) ==
    IF ins.fault
    THEN Done(ins.w, [cat EXCEPT ![ti] = ins.table], RISTRETTO_ERROR, <<>>, TRUE)
    ELSE IF ins.row_id.page_id = 0
    THEN Done(ins.w, [cat EXCEPT ![ti] = ins.table], RISTRETTO_ERROR, <<>>, FALSE)
    ELSE IF cat[ti].primary_index.present /\ cat[ti].column_count > 0
            /\ cat[ti].columns[1].type = TYPE_INTEGER
    THEN IndexedRow(btree_insert(ins.w, cat[ti].primary_index, key, ins.row_id, uaf),
                    [cat EXCEPT ![ti] = ins.table])
    ELSE Done(ins.w, [cat EXCEPT ![ti] = ins.table], RISTRETTO_OK, <<>>, FALSE)

\* execute_insert of the parsed values
InsertValues(w, cat, h, ti, values, uaf) ==
    IF Len(values) # cat[ti].column_count
    THEN Done(w, cat, RISTRETTO_CONSTRAINT_ERROR, <<>>, FALSE)
    ELSE IF ~\A i \in 1..Len(values) :
                values[i].type = TYPE_NULL \/ values[i].type = cat[ti].columns[i].type
    THEN Done(w, cat, RISTRETTO_CONSTRAINT_ERROR, <<>>, FALSE)
    ELSE InsertedRow(table_insert_row(w, cat[ti], h, RowBytes(cat[ti], values)),
                     cat, ti, SubSeq(values[1].integer, 1, 4), uaf)

\* execute_insert into the table at catalog position ti
execute_insert(w, cat, h, ti, stmt, uaf) ==
    InsertValues(w, cat, h, ti,
                 [i \in 1..Len(stmt.values) |-> parse_value(stmt.values[i])], uaf)

\* value_to_string
value_to_string(value) ==
    CASE value.type = TYPE_NULL    -> <<78, 85, 76, 76>>
      [] value.type = TYPE_INTEGER -> FormatI64(value.integer)
      [] value.type = TYPE_TEXT    -> value.text
      [] OTHER                     -> <<63>>

\* what the row sink receives for one row
Deliver(table, row) ==
    [n_cols    |-> table.column_count,
     values    |-> [i \in 1..table.column_count |->
                      value_to_string(storage_row_get_value(row, table, i))],
     col_names |-> [i \in 1..table.column_count |-> table.columns[i].name]]


DeliverAll(table, rows) == [k \in 1..Len(rows) |-> Deliver(table, rows[k])]

\* the scanner loop of execute_select reporting the end of the scan (a NULL
\* row) as an error
ScanDeliver_end_is_error(s, cat, table) ==
    Done(s.w, cat, RISTRETTO_ERROR, DeliverAll(table, s.rows), s.fault)

ScanDeliver(s, cat, table) ==
    Done(s.w, cat, RISTRETTO_OK, DeliverAll(table, s.rows), s.fault)

\* the generic scanner path of execute_select
execute_select_scan(w, cat, h, ti) ==
    ScanDeliver(ScanTable(w, cat[ti], h, cat[ti].row_count), cat, cat[ti])

\* simd_filter_eq_i64, simd_filter_gt_i64, simd_filter_lt_i64
simd_filter_i64(op, column, value) ==
    [i \in 1..Len(column) |->
        CASE op = "=" -> column[i] = value
          [] op = ">" -> I64Lt(value, column[i])
          [] op = "<" -> I64Lt(column[i], value)
          [] OTHER    -> FALSE]

RECURSIVE SelectMarked(_, _, _)
SelectMarked(rows, bitmap, i) ==
    IF i > Len(rows) THEN <<>>
    ELSE (IF bitmap[i] THEN <<rows[i]>> ELSE <<>>) \o SelectMarked(rows, bitmap, i + 1)

\* the first column of that name, or 0
ColumnIndex(table, name) ==
    LET S == {i \in 1..table.column_count : table.columns[i].name = name}
    IN  IF S = {} THEN 0 ELSE CHOOSE i \in S : \A j \in S : i <= j


\* the column operand of a filter and its literal operand
FilterColumn(filter) ==
    IF filter.left.type = "column" /\ filter.right.type = "literal"
    THEN filter.left.column ELSE filter.right.column

FilterLiteral(filter) ==
    IF filter.left.type = "column" /\ filter.right.type = "literal"
    THEN filter.right.literal ELSE filter.left.literal

\* the operator with the column on the left
FilterOp(filter) ==
    IF filter.left.type = "column" /\ filter.right.type = "literal" THEN filter.op
    ELSE IF filter.op = ">" THEN "<"
    ELSE IF filter.op = "<" THEN ">" ELSE filter.op

\* execute_select_simd, first pass: the column's values
ColumnData(rows, table, col_index) ==
    [k \in 1..Len(rows) |->
        IF table.columns[col_index].type = TYPE_INTEGER
        THEN storage_row_get_value(rows[k], table, col_index).integer
        ELSE ZERO8]

\* execute_select_simd, second pass: the rows the bitmap marks
SimdDeliver(s2, cat, table, bitmap) ==
    Done(s2.w, cat, RISTRETTO_OK,
         DeliverAll(table, SelectMarked(s2.rows, bitmap, 1)), s2.fault)

SimdFilter(s1, cat, h, table, col_index, op, compare_value) ==
    IF s1.fault THEN Done(s1.w, cat, RISTRETTO_OK, <<>>, TRUE)
    ELSE SimdDeliver(ScanTable(s1.w, table, h, Len(s1.rows)), cat, table,
                     simd_filter_i64(op, ColumnData(s1.rows, table, col_index),
                                     compare_value))

SimdColumn(w, cat, h, table, col_index, filter) ==
    IF col_index = 0 THEN Done(w, cat, RISTRETTO_ERROR, <<>>, FALSE)
    ELSE SimdFilter(ScanTable(w, table, h, table.row_count), cat, h, table, col_index,
                    FilterOp(filter), parse_value(FilterLiteral(filter)).integer)

\* execute_select_simd
execute_select_simd(w, cat, h, ti, filter) ==
    SimdColumn(w, cat, h, cat[ti], ColumnIndex(cat[ti], FilterColumn(filter)), filter)

\* execute_select
execute_select(w, cat, h, ti, filter, has_callback) ==
    LET table == cat[ti]
    IN  IF table.column_count = 0 THEN Done(w, cat, RISTRETTO_ERROR, <<>>, FALSE)
        ELSE IF ~has_callback THEN Done(w, cat, RISTRETTO_OK, <<>>, FALSE)
        ELSE IF can_use_simd_filter(filter, table) /\ table.row_count > SIMD_MIN_ROWS
        THEN execute_select_simd(w, cat, h, ti, filter)
        ELSE execute_select_scan(w, cat, h, ti)


\* execute_index_scan after table_get_row
IndexDeliver(r, cat, table) ==
    IF r.fault THEN Done(r.w, cat, RISTRETTO_OK, <<>>, TRUE)
    ELSE IF ~r.found THEN Done(r.w, cat, RISTRETTO_OK, <<>>, FALSE)
    ELSE Done(r.w, cat, RISTRETTO_OK, <<Deliver(table, r.row)>>, FALSE)

\* execute_index_scan after btree_find
IndexFetch(f, cat, h, table) ==
    IF f.fault THEN Done(f.w, cat, RISTRETTO_OK, <<>>, TRUE)
    ELSE IF ~f.found THEN Done(f.w, cat, RISTRETTO_OK, <<>>, FALSE)
    ELSE IndexDeliver(table_get_row(f.w, table, h, f.row_id), cat, table)

\* execute_index_scan
execute_index_scan(w, cat, h, ti, filter, has_callback, uaf) ==
    IF ~cat[ti].primary_index.present \/ cat[ti].column_count = 0
    THEN Done(w, cat, RISTRETTO_ERROR, <<>>, FALSE)
    ELSE IF ~has_callback THEN Done(w, cat, RISTRETTO_OK, <<>>, FALSE)
    ELSE IndexFetch(btree_find(w, cat[ti].primary_index,
                               SubSeq(parse_value(FilterLiteral(filter)).integer, 1, 4),
                               uaf),
                    cat, h, cat[ti])

\* the type names of execute_describe and execute_show_create_table
TypeName(type) ==
    CASE type = TYPE_INTEGER -> "INTEGER"
      [] type = TYPE_REAL    -> "REAL"
      [] type = TYPE_TEXT    -> "TEXT"
      [] OTHER               -> "UNKNOWN"

\* execute_show_tables with no LIKE pattern: one row per catalog entry
execute_show_tables(w, cat, has_callback) ==
    IF ~has_callback THEN Done(w, cat, RISTRETTO_OK, <<>>, FALSE)
    ELSE Done(w, cat, RISTRETTO_OK,
              [i \in 1..Len(cat) |->
                 [n_cols |-> 1, values |-> <<cat[i].name>>,
                  col_names |-> <<"Tables_in_database">>]],
              FALSE)

\* execute_describe: one row per column
execute_describe(w, cat, ti, has_callback) ==
    IF ~has_callback THEN Done(w, cat, RISTRETTO_OK, <<>>, FALSE)
    ELSE Done(w, cat, RISTRETTO_OK,
              [i \in 1..cat[ti].column_count |->
                 [n_cols |-> 6,
                  values |-> <<cat[ti].columns[i].name, TypeName(cat[ti].columns[i].type),
                               "YES", "", "", "">>,
                  col_names |-> <<"Field", "Type", "Null", "Key", "Default", "Extra">>]],
              FALSE)

\* the column lines of execute_show_create_table from column i on
RECURSIVE CreateLines(_, _)
CreateLines(table, i) ==
    IF i > table.column_count THEN ""
    ELSE (IF i > 1 THEN ",\n" ELSE "") \o "  " \o table.columns[i].name \o " "
         \o TypeName(table.columns[i].type) \o CreateLines(table, i + 1)

\* execute_show_create_table: one row, the statement text built in a
\* buffer of 4096 bytes (tables whose text is longer are outside the inputs)
execute_show_create_table(w, cat, ti, has_callback) ==
    IF ~has_callback THEN Done(w, cat, RISTRETTO_OK, <<>>, FALSE)
    ELSE Done(w, cat, RISTRETTO_OK,
              <<[n_cols |-> 2,
                 values |-> <<cat[ti].name,
                              "CREATE TABLE " \o cat[ti].name \o " (\n"
                                 \o CreateLines(cat[ti], 1) \o "\n)">>,
                 col_names |-> <<"Table", "Create Table">>]>>,
              FALSE)

\* execute_plan
execute_plan(w, cat, h, plan, stmt, has_callback, uaf) ==
    CASE plan.type = "PLAN_CREATE_TABLE" -> execute_create_table(w, cat, h, stmt)
      [] plan.type = "PLAN_INSERT" ->
            execute_insert(w, cat, h, plan.table, stmt, uaf)
      [] plan.type = "PLAN_TABLE_SCAN" ->
            execute_select(w, cat, h, plan.table, stmt.where, has_callback)
      [] plan.type = "PLAN_INDEX_SCAN" ->
            execute_index_scan(w, cat, h, plan.table, stmt.where, has_callback, uaf)
      [] plan.type = "PLAN_SHOW_TABLES" -> execute_show_tables(w, cat, has_callback)
      [] plan.type = "PLAN_DESCRIBE" -> execute_describe(w, cat, plan.table, has_callback)
      [] plan.type = "PLAN_SHOW_CREATE_TABLE" ->
            execute_show_create_table(w, cat, plan.table, has_callback)
      [] OTHER -> Done(w, cat, RISTRETTO_ERROR, <<>>, FALSE)


RunPlan(w, cat, h, plan, stmt, has_callback, uaf) ==
    IF plan.type = "null" THEN Done(w, cat, RISTRETTO_ERROR, <<>>, FALSE)
    ELSE execute_plan(w, cat, h, plan, stmt, has_callback, uaf)

\* ristretto_exec (has_callback = FALSE) and ristretto_query of a statement
\* that parse_sql accepted
ristretto_run(w, cat, h, stmt, has_callback, uaf) ==
    RunPlan(w, cat, h, plan_statement(stmt, cat), stmt, has_callback, uaf)

\* storage_value_compare of two INTEGER values, as a sign
storage_value_compare(left, right) ==
    IF left.type # right.type THEN 0 - 1
    ELSE IF left.type = TYPE_INTEGER
    THEN (IF I64Lt(left.integer, right.integer) THEN 0 - 1
          ELSE IF I64Lt(right.integer, left.integer) THEN 1 ELSE 0)
    ELSE IF left.type = TYPE_NULL THEN 0
    ELSE 0 - 1

\* evaluate_expr_to_value of a leaf: [ok, value]
evaluate_expr_to_value(leaf, row, table) ==
    IF leaf.type = "literal" THEN [ok |-> TRUE, value |-> parse_value(leaf.literal)]
    ELSE IF leaf.type = "column" /\ ColumnIndex(table, leaf.column) # 0
    THEN [ok |-> TRUE,
          value |-> storage_row_get_value(row, table, ColumnIndex(table, leaf.column))]
    ELSE [ok |-> FALSE, value |-> NullValue]


Compared(op, l, r) ==
    /\ l.ok /\ r.ok
    /\ CASE op = "="  -> storage_value_compare(l.value, r.value) = 0
         [] op = "<"  -> storage_value_compare(l.value, r.value) < 0
         [] op = ">"  -> storage_value_compare(l.value, r.value) > 0
         [] OTHER     -> FALSE

\* evaluate_expr on a comparison (evaluate_comparison) or on no filter
evaluate_expr(expr, row, table) ==
    IF expr.type = "none" THEN TRUE
    ELSE Compared(expr.op, evaluate_expr_to_value(expr.left, row, table),
                  evaluate_expr_to_value(expr.right, row, table))

-----------------------------------------------------------------------------
(* The calls of db.h as actions *)

NoStmt == [type |-> "none", table_name |-> "", columns |-> <<>>, values |-> <<>>,
           where |-> NoExpr]

NoOut == [op |-> "none", h |-> 0, gen |-> 0, stmt |-> NoStmt, plan |-> "null",
          result |-> RISTRETTO_OK, rows |-> <<>>]

\* ristretto_open
RistrettoOpen(h, filename, policy) ==
    /\ ~crashed /\ db[h].state # "open" /\ db[h].gen < MaxOpens
    /\ LET w == pager_open([disk |-> disk, db |-> db], h, filename, policy)
       IN  /\ disk' = w.disk
           /\ db' = w.db
    /\ UNCHANGED <<catalog, out, hist, crashed>>

\* ristretto_close: the pager goes, the process-wide catalog stays
RistrettoClose(h) ==
    /\ ~crashed /\ db[h].state = "open"
    /\ db' = pager_close([disk |-> disk, db |-> db], h).db
    /\ UNCHANGED <<disk, catalog, out, hist, crashed>>


\* ristretto_exec / ristretto_query of one statement on an open handle
RistrettoRun(h, stmt, has_callback, uaf) ==
    /\ ~crashed /\ db[h].state = "open"
    /\ \E r \in {ristretto_run([disk |-> disk, db |-> db], catalog, h, stmt,
                               has_callback, uaf)} :
          /\ disk' = r.w.disk
          /\ db' = r.w.db
          /\ catalog' = r.catalog
          /\ crashed' = r.fault
          /\ out' = [op |-> IF r.fault THEN "fault"
                            ELSE IF has_callback THEN "query" ELSE "exec",
                     h |-> h, gen |-> db[h].gen, stmt |-> stmt,
                     plan |-> plan_statement(stmt, catalog).type,
                     result |-> r.result, rows |-> r.rows]
          /\ hist' = IF ~r.fault /\ r.result = RISTRETTO_OK /\ stmt.type = "insert"
                     THEN [hist EXCEPT !.rows[stmt.table_name] = Append(@, stmt.values)]
                     ELSE IF ~r.fault /\ r.result = RISTRETTO_OK /\ stmt.type = "create"
                     THEN [hist EXCEPT !.owner[stmt.table_name] = <<h, db[h].gen>>]
                     ELSE hist

-----------------------------------------------------------------------------
(* Inputs of Engine A *)

\* an identifier of 64 bytes
LongName == "aaaaaaaaaaaaaaaaaaaaaaaaaaaaaaaaaaaaaaaaaaaaaaaaaaaaaaaaaaaaaaaa"

TableNames == {"t", "u", "s", LongName}

Tok(kind, s) == [kind |-> kind, s |-> s]
IntTok(s)    == Tok("int", s)
NullTok      == Tok("null", <<>>)

ColumnLeaf(name) == [type |-> "column", column |-> name, literal |-> NullTok]
LiteralLeaf(tok) == [type |-> "literal", column |-> "", literal |-> tok]
Binary(op, l, r) == [type |-> "binary", op |-> op, left |-> l, right |-> r]

CreateStmt(name, columns) ==
    [NoStmt EXCEPT !.type = "create", !.table_name = name, !.columns = columns]
InsertStmt(name, values) ==
    [NoStmt EXCEPT !.type = "insert", !.table_name = name, !.values = values]
SelectStmt(name, where) ==
    [NoStmt EXCEPT !.type = "select", !.table_name = name, !.where = where]

ColumnsIdV    == <<[name |-> "id", type |-> TYPE_INTEGER],
                   [name |-> "v", type |-> TYPE_INTEGER]>>
ColumnsIdName == <<[name |-> "id", type |-> TYPE_INTEGER],
                   [name |-> "name", type |-> TYPE_TEXT]>>

\* "7", "3", "30", "5", "-5"
D7  == <<55>>
D3  == <<51>>
D30 == <<51, 48>>
D5  == <<53>>
DM5 == <<45, 53>>

CreateStmts == {CreateStmt("t", ColumnsIdV), CreateStmt("u", ColumnsIdName)}

InsertStmts ==
    {InsertStmt("t", <<IntTok(D7), IntTok(D30)>>),
     InsertStmt("t", <<IntTok(D3), IntTok(DM5)>>),
     InsertStmt("u", <<IntTok(D7), Tok("text", <<97, 98>>)>>)}

WhereId7 == Binary("=", ColumnLeaf("id"), LiteralLeaf(IntTok(D7)))
Where3Id == Binary("=", LiteralLeaf(IntTok(D3)), ColumnLeaf("id"))
WhereV5  == Binary(">", ColumnLeaf("v"), LiteralLeaf(IntTok(D5)))

SelectStmts == {SelectStmt("t", e) : e \in {NoExpr, WhereId7, Where3Id, WhereV5}}
                  \cup {SelectStmt("u", e) : e \in {NoExpr, WhereId7}}

HandleInserts == {InsertStmt("t", <<IntTok(D7), IntTok(D30)>>)}
HandleSelects == {SelectStmt("t", NoExpr), SelectStmt("t", WhereId7)}

\* the decimal digits of a natural number
RECURSIVE DecimalOf(_)
DecimalOf(n) == IF n < 10 THEN <<48 + n>> ELSE DecimalOf(n \div 10) \o <<48 + (n % 10)>>

ScanWheres ==
    {NoExpr,
     Binary(">", ColumnLeaf("v"), LiteralLeaf(IntTok(D5))),
     Binary("<", LiteralLeaf(IntTok(D5)), ColumnLeaf("v")),
     Binary("=", ColumnLeaf("v"), LiteralLeaf(IntTok(D30))),
     Binary("<", ColumnLeaf("v"), LiteralLeaf(IntTok(D30)))}

Policies == {"low", "high", "fresh"}
Uafs     == {"fault", "intact"}

\* catalog position of a table, and its row count (0 when absent)
RowCountOf(name) ==
    IF find_table(catalog, name) = 0 THEN 0
    ELSE catalog[find_table(catalog, name)].row_count

InitAVars ==
    /\ disk = [f \in FileNames |-> [size |-> 0, mem |-> EmptyMem]]
    /\ db = [h \in Handles |-> NoHandle]
    /\ catalog = <<>>
    /\ out = NoOut
    /\ hist = [rows  |-> [n \in TableNames |-> <<>>],
               owner |-> [n \in TableNames |-> <<0, 0>>]]

-----------------------------------------------------------------------------
(* Specifications *)

InitB ==
    /\ file = NoFile
    /\ tbl = NoTable
    /\ crashed = FALSE
    /\ sink = <<>>
    /\ ret = [op |-> "none", val |-> TRUE]
    /\ appended = <<>>
    /\ snap = [valid |-> FALSE]
    /\ envfail = FALSE
    /\ codec = CodecIdle
    /\ InitAVars

\* small tables, whole life cycle
BCreate == (\E s \in SmallSchemas : TableCreate(s)) /\ UNCHANGED varsA
BOpen   == TableOpen /\ UNCHANGED varsA
BClose  == TableClose /\ UNCHANGED varsA
BAppend == /\ tbl.live /\ file.hdr.num_rows < MaxRows
           /\ \E v \in SmallValues(file.hdr.columns), elapsed \in BOOLEAN,
                 ms_ok \in BOOLEAN :
                  /\ TableAppend(v, elapsed, TRUE, TRUE, ms_ok)
                  /\ appended' = IF ret'.val THEN Append(appended, v) ELSE appended
           /\ UNCHANGED varsA
BFlush  == (\E ms_ok \in BOOLEAN : TableFlush(ms_ok)) /\ UNCHANGED varsA
BSelect == (\E w \in {"", "id > 5"} : TableSelect(w)) /\ UNCHANGED varsA

NextB == BCreate \/ BOpen \/ BClose \/ BAppend \/ BFlush \/ BSelect
SpecB == InitB /\ [][NextB]_vars

\* a table of the widest rows, appended to until the file has doubled; the
\* sync timer does not expire while the table fills, and explicit flushes
\* come once the first mapping is nearly full
GCreate == (\E s \in GrowSchemas : TableCreate(s)) /\ UNCHANGED varsA
GAppend == /\ tbl.live /\ file.hdr.num_rows < MaxGrowRows
           /\ LET need == ~(tbl.write_offset + file.hdr.row_size <= tbl.mapped_size)
              IN  \E v \in GrowValues(file.hdr.columns), elapsed \in {FALSE},
                     ft_ok \in (IF need THEN BOOLEAN ELSE {TRUE}),
                     mm_ok \in (IF need THEN BOOLEAN ELSE {TRUE}),
                     ms_ok \in BOOLEAN :
                      /\ TableAppend(v, elapsed, ft_ok, mm_ok, ms_ok)
                      /\ UNCHANGED appended
           /\ UNCHANGED varsA
GFlush  == /\ tbl.live
           /\ tbl.write_offset + 4 * file.hdr.row_size > INITIAL_FILE_SIZE
           /\ \E ms_ok \in BOOLEAN : TableFlush(ms_ok)
           /\ UNCHANGED varsA

NextGrow == GCreate \/ GAppend \/ GFlush
SpecGrow == InitB /\ [][NextGrow]_vars

\* the codec on its own
InitCodec ==
    /\ file = NoFile /\ tbl = NoTable /\ crashed = FALSE /\ sink = <<>>
    /\ ret = [op |-> "none", val |-> TRUE] /\ appended = <<>>
    /\ snap = [valid |-> FALSE] /\ envfail = FALSE
    /\ InitAVars
    /\ \E s \in CodecSchemas :
          LET p == table_parse_schema(s)
          IN  \E v \in CodecValues(p.cols) :
                 codec = [cols |-> p.cols, row_size |-> p.row_size,
                          values |-> v, out |-> <<>>, done |-> FALSE]

NextCodec == CodecApply /\ UNCHANGED varsA
SpecCodec == InitCodec /\ [][NextCodec]_vars

\* Engine A
InitA == InitB

\* one handle on one file, two small tables
UafsNow == IF \E h \in Handles : db[h].state = "closed" THEN Uafs ELSE {"intact"}

AOpen   == /\ \E p \in Policies : RistrettoOpen(1, "a.db", p)
           /\ UNCHANGED varsTable
ACreate == /\ \E s \in CreateStmts : RistrettoRun(1, s, FALSE, "intact")
           /\ UNCHANGED varsTable
AInsert == /\ \E s \in InsertStmts, u \in UafsNow :
                 /\ RowCountOf(s.table_name) < MaxRowsA
                 /\ RistrettoRun(1, s, FALSE, u)
           /\ UNCHANGED varsTable
ASelect == /\ \E s \in SelectStmts, u \in UafsNow :
                 RistrettoRun(1, s, TRUE, u)
           /\ UNCHANGED varsTable

NextA == AOpen \/ ACreate \/ AInsert \/ ASelect
SpecA == InitA /\ [][NextA]_vars

\* two handles, two files, one table; the first handle is on a.db, and the
\* kernel places every mapping at the highest free range
HOpen   == /\ \E h \in Handles : \E f \in (IF h = 1 THEN {"a.db"} ELSE FileNames) :
                 RistrettoOpen(h, f, "high")
           /\ UNCHANGED varsTable
HClose  == /\ \E h \in Handles : RistrettoClose(h)
           /\ UNCHANGED varsTable
HCreate == /\ \E h \in Handles :
                 RistrettoRun(h, CreateStmt("t", ColumnsIdV), FALSE, "intact")
           /\ UNCHANGED varsTable
HInsert == /\ \E h \in Handles, s \in HandleInserts, u \in UafsNow :
                 /\ RowCountOf(s.table_name) < MaxRowsA
                 /\ RistrettoRun(h, s, FALSE, u)
           /\ UNCHANGED varsTable
HSelect == /\ \E h \in Handles, s \in HandleSelects, u \in UafsNow :
                 RistrettoRun(h, s, TRUE, u)
           /\ UNCHANGED varsTable

NextHandles == HOpen \/ HClose \/ HCreate \/ HInsert \/ HSelect
SpecHandles == InitA /\ [][NextHandles]_vars

\* one handle, one table filled past the row count that selects the
\* column-vector path; the first ScanFreeRows rows choose their v, and the
\* queries come while the table is small and once it is around 100 rows
ScanOpen   == /\ db[1].state = "none"
              /\ \E p \in Policies : RistrettoOpen(1, "a.db", p)
              /\ UNCHANGED varsTable
ScanCreate == /\ RistrettoRun(1, CreateStmt("s", ColumnsIdV), FALSE, "intact")
              /\ UNCHANGED varsTable
ScanInsert == /\ RowCountOf("s") < MaxScanRows
              /\ \E v \in (IF RowCountOf("s") < ScanFreeRows THEN {D5, D30} ELSE {D5}) :
                    RistrettoRun(1, InsertStmt("s", <<IntTok(DecimalOf(RowCountOf("s") + 1)),
                                                      IntTok(v)>>),
                                 FALSE, "intact")
              /\ UNCHANGED varsTable
ScanSelect == /\ RowCountOf("s") <= ScanFreeRows \/ RowCountOf("s") >= SIMD_MIN_ROWS
              /\ \E e \in ScanWheres : RistrettoRun(1, SelectStmt("s", e), TRUE, "intact")
              /\ UNCHANGED varsTable

NextScan == ScanOpen \/ ScanCreate \/ ScanInsert \/ ScanSelect
SpecScan == InitA /\ [][NextScan]_vars

-----------------------------------------------------------------------------
(* Claims *)

HdrRows == file.hdr.num_rows
HdrRowSize == file.hdr.row_size

\* C1: a table from table_create keeps write_offset = 256 + num_rows * row_size
\* and write_offset <= mapped_size = file length after every append, also
\* across a doubling remap; the process faults only after the environment
\* refused a truncate or a mapping.
C1_FileCoversRows ==
    /\ tbl.live =>
          /\ tbl.write_offset = TABLE_HEADER_SIZE + HdrRows * HdrRowSize
          /\ file.size >= TABLE_HEADER_SIZE + HdrRows * HdrRowSize
          /\ tbl.mapped => /\ tbl.write_offset <= tbl.mapped_size
                           /\ tbl.mapped_size = file.size
    /\ crashed => envfail

C1_Witness ==
    /\ tbl.live /\ tbl.mapped /\ ~crashed
    /\ tbl.mapped_size = INITIAL_FILE_SIZE * GROWTH_FACTOR
    /\ ret = [op |-> "append", val |-> TRUE]
    /\ TABLE_HEADER_SIZE + HdrRows * HdrRowSize > INITIAL_FILE_SIZE

\* the row the codec stores for a value vector and reads back
Stored(values) ==
    table_unpack_row(file.hdr.columns,
                     table_pack_row(file.hdr.columns, file.hdr.row_size, values,
                                    EmptyMem, 0).m, 0).values

C3_ReopenRecovers ==
    (ret = [op |-> "open", val |-> TRUE] /\ snap.valid) =>
        /\ file.hdr.num_rows = snap.num_rows
        /\ file.hdr.column_count = snap.column_count
        /\ file.hdr.row_size = snap.row_size
        /\ file.hdr.columns = snap.columns
        /\ tbl.write_offset = TABLE_HEADER_SIZE + snap.num_rows * snap.row_size
        /\ tbl.write_offset = snap.write_offset
        /\ table_select(tbl, file, "").rows = snap.rows

C3_Witness ==
    /\ ret = [op |-> "open", val |-> TRUE] /\ snap.valid
    /\ snap.num_rows = MaxRows /\ Len(snap.rows) = MaxRows

\* the value C4 expects back for one column
Expected(col, val) ==
    IF col.type = COL_TYPE_TEXT
    THEN [type |-> col.type, is_null |-> FALSE, num |-> ZERO8,
          text |-> IF val.is_null THEN <<>>
                   ELSE SubSeq(val.text, 1, Min(Len(val.text), col.length - 1))]
    ELSE [type |-> col.type, is_null |-> FALSE, text |-> <<>>,
          num |-> IF val.is_null THEN ZERO8 ELSE val.num]

\* C4: unpack(pack(values)) returns each INTEGER exactly, the first
\* min(n, L-1) bytes of an n-byte text in a TEXT column of length L, and the
\* zero value for a null input.
C4_RoundTrip ==
    codec.done =>
        \A i \in 1..Len(codec.cols) :
            codec.out[i] = Expected(codec.cols[i], codec.values[i])

\* the same, for layouts whose TEXT columns all have length >= 1
C4_RoundTripPositiveLengths ==
    (codec.done /\ \A i \in 1..Len(codec.cols) : codec.cols[i].length >= 1) =>
        \A i \in 1..Len(codec.cols) :
            codec.out[i] = Expected(codec.cols[i], codec.values[i])

-----------------------------------------------------------------------------
(* Engine A claims *)

\* the catalog entry the last statement names (the first of that name)
OutTable == catalog[find_table(catalog, out.stmt.table_name)]

OutNamesTable == find_table(catalog, out.stmt.table_name) # 0

\* the strings a row of INSERT tokens reads back as
TokenStrings(toks) == [j \in 1..Len(toks) |-> toks[j].s]

\* the rows of the named table as a scan through handle h reads them now
RowsSeen(h, table) ==
    ScanTable([disk |-> disk, db |-> db], table, h, table.row_count).rows

RECURSIVE Satisfying(_, _, _, _)
Satisfying(rows, filter, table, i) ==
    IF i > Len(rows) THEN <<>>
    ELSE (IF evaluate_expr(filter, rows[i], table) THEN <<Deliver(table, rows[i])>> ELSE <<>>)
         \o Satisfying(rows, filter, table, i + 1)

\* C5: a SELECT * through ristretto_query on a table with n INSERTs that
\* returned OK returns OK and hands the sink n = table.row_count rows, in
\* insertion order, each with all columns of its INSERT in declared order.
C5_SelectStarAllRows ==
    (out.stmt.type = "select" /\ out.stmt.where = NoExpr /\ OutNamesTable) =>
        LET ins == hist.rows[out.stmt.table_name]
        IN  /\ out.op = "query"
            /\ out.result = RISTRETTO_OK
            /\ Len(out.rows) = Len(ins)
            /\ Len(out.rows) = OutTable.row_count
            /\ \A i \in 1..Len(out.rows) :
                  /\ out.rows[i].values = TokenStrings(ins[i])
                  /\ out.rows[i].col_names =
                        [j \in 1..OutTable.column_count |-> OutTable.columns[j].name]

\* C6: for a WHERE of the form column op integer-literal the generic
\* scanner path and the column-vector path deliver the same rows, namely
\* the rows that satisfy the predicate, so a query's result does not depend
\* on the path taken.
C6_PathsAgree ==
    (out.op = "query" /\ out.plan = "PLAN_TABLE_SCAN" /\ OutNamesTable
       /\ can_use_simd_filter(out.stmt.where, OutTable)) =>
        LET w  == [disk |-> disk, db |-> db]
            ti == find_table(catalog, out.stmt.table_name)
            generic == execute_select_scan(w, catalog, out.h, ti).rows
            vector  == execute_select_simd(w, catalog, out.h, ti, out.stmt.where).rows
            sat     == Satisfying(RowsSeen(out.h, OutTable), out.stmt.where, OutTable, 1)
        IN  /\ generic = vector
            /\ generic = sat
            /\ out.rows = sat

\* C7: a SELECT with a WHERE clause run as a TableScan on the generic
\* scanner path hands the sink exactly the rows on which the predicate
\* evaluates to true.
C7_ScanDeliversMatches ==
    (out.op = "query" /\ out.plan = "PLAN_TABLE_SCAN" /\ out.stmt.where # NoExpr
       /\ OutNamesTable /\ OutTable.row_count <= SIMD_MIN_ROWS) =>
        out.rows = Satisfying(RowsSeen(out.h, OutTable), out.stmt.where, OutTable, 1)

\* C8: after successful INSERTs with pairwise distinct first-column values,
\* SELECT * ... WHERE col0 = k returns OK and delivers exactly the row whose
\* first column is k if one was inserted and no row otherwise.
C8_IndexScanFindsRow ==
    (out.stmt.type = "select" /\ out.plan = "PLAN_INDEX_SCAN" /\ OutNamesTable) =>
        LET ins == hist.rows[out.stmt.table_name]
            k   == strtoll(FilterLiteral(out.stmt.where).s)
            hit == {i \in 1..Len(ins) : strtoll(ins[i][1].s) = k}
        IN  (\A i, j \in 1..Len(ins) : i # j => strtoll(ins[i][1].s) # strtoll(ins[j][1].s)) =>
                /\ out.op = "query"
                /\ out.result = RISTRETTO_OK
                /\ out.rows = IF hit = {} THEN <<>>
                              ELSE <<[n_cols |-> OutTable.column_count,
                                      values |-> TokenStrings(ins[CHOOSE i \in hit : TRUE]),
                                      col_names |-> [j \in 1..OutTable.column_count |->
                                                       OutTable.columns[j].name]]>>

\* C9: a table belongs to the handle that created it: CREATE TABLE of a name
\* is refused only when this handle created that name, and INSERT or SELECT
\* naming a table created through another handle fails.
C9_TablesScopedToHandle ==
    /\ (out.stmt.type = "create" /\ out.result = RISTRETTO_CONSTRAINT_ERROR) =>
           hist.owner[out.stmt.table_name] = <<out.h, out.gen>>
    /\ (out.stmt.type \in {"insert", "select"}
           /\ hist.owner[out.stmt.table_name] # <<out.h, out.gen>>) =>
           (out.op # "fault" /\ out.result # RISTRETTO_OK)

\* PageHeader.row_count of the table's data page as handle h sees it
SeenRowCount(h, table) ==
    IF table.root_page = 0 THEN 0
    ELSE LET g == pager_get_page([disk |-> disk, db |-> db], h, table.root_page)
             t == Target(g.w, g.page)
         IN  IF t.ok THEN U32(Load(g.w, t, 4, 4)) ELSE 0 - 1

\* C10: for every table of the catalog the PageHeader.row_count of its data
\* pages, seen through the pager of the handle that ran the last statement,
\* adds up to table.row_count.
C10_PageCountsMatch ==
    (out.op \in {"exec", "query"} /\ db[out.h].state = "open") =>
        \A i \in 1..Len(catalog) :
            SeenRowCount(out.h, catalog[i]) = catalog[i].row_count

-----------------------------------------------------------------------------
(* The ordered index through btree.h: one pager, one index, the calls      *)
(* btree_insert, btree_find and a cursor walk.  hist.locs is the locator   *)
(* of every key whose insert returned true, hist.calls counts the calls.   *)

MaxIndexKeys  == 255    \* btree_insert calls (a node holds BTREE_ORDER - 1 keys)
IndexFreeKeys == 2      \* calls that choose their key

IndexKeys == {5, 10}

\* btree_cursor_first, then btree_cursor_key and btree_cursor_advance until
\* btree_cursor_at_end: the keys of the leaf root, cell by cell
CursorWalk(n) ==
    IF n.fault THEN <<>>
    ELSE [i \in 1..U32(Load(n.w, n.t, 8, 4)) |-> U32(NodeKey(n.w, n.t, i - 1))]

btree_cursor_keys(w, btree, uaf) == CursorWalk(get_node(w, btree, uaf))

NumKeysOf(n) == IF n.fault THEN 0 ELSE U32(Load(n.w, n.t, 8, 4))

\* header->num_keys of the root
btree_num_keys(w, btree) == NumKeysOf(get_node(w, btree, "intact"))

InitIndex ==
    /\ file = NoFile /\ tbl = NoTable /\ crashed = FALSE /\ sink = <<>>
    /\ ret = [op |-> "none", val |-> TRUE] /\ appended = <<>>
    /\ snap = [valid |-> FALSE] /\ envfail = FALSE /\ codec = CodecIdle
    /\ disk = [f \in FileNames |-> [size |-> 0, mem |-> EmptyMem]]
    /\ db = [h \in Handles |-> NoHandle]
    /\ catalog = <<>>
    /\ out = [op |-> "none", key |-> 0, ok |-> TRUE, present |-> FALSE,
              row_id |-> NoRowId, keys |-> <<>>, before |-> 0]
    /\ hist = [locs |-> [k \in {} |-> NoRowId], calls |-> 0]

\* pager_open and btree_create
IndexCreate ==
    /\ db[1].state = "none"
    /\ \E p \in Policies :
         \E b \in {btree_create(pager_open([disk |-> disk, db |-> db], 1, "a.db", p), 1)} :
            /\ disk' = b.w.disk
            /\ db' = b.w.db
            /\ catalog' = <<b.btree>>
            /\ out' = [op |-> "create", key |-> 0, ok |-> ~b.fault, present |-> FALSE,
                       row_id |-> NoRowId, keys |-> <<>>, before |-> 0]
    /\ UNCHANGED <<hist, crashed, varsTable>>

\* btree_insert(btree, key, value)
IndexInsertKey(k, value) ==
    \E r \in {btree_insert([disk |-> disk, db |-> db], catalog[1], U32Bytes(k), value,
                           "intact")} :
       /\ disk' = r.w.disk
       /\ db' = r.w.db
       /\ out' = [op |-> "insert", key |-> k, ok |-> r.ok, present |-> k \in DOMAIN hist.locs,
                  row_id |-> value, keys |-> <<>>,
                  before |-> btree_num_keys([disk |-> disk, db |-> db], catalog[1])]
       /\ hist' = [locs  |-> IF r.ok THEN (k :> value) @@ hist.locs ELSE hist.locs,
                   calls |-> hist.calls + 1]
       /\ UNCHANGED <<catalog, crashed, varsTable>>

IndexInsert ==
    /\ catalog # <<>> /\ hist.calls < MaxIndexKeys
    /\ \E k \in (IF hist.calls < IndexFreeKeys THEN IndexKeys ELSE {1000 + hist.calls}) :
          IndexInsertKey(k, [page_id |-> 2, offset |-> 8 + 16 * hist.calls])

IndexQuiet == hist.calls <= IndexFreeKeys \/ hist.calls >= BTREE_ORDER - 1

\* btree_find(btree, key)
IndexFind ==
    /\ catalog # <<>> /\ IndexQuiet
    /\ \E k \in IndexKeys \cup {1000 + IndexFreeKeys, 1000 + MaxIndexKeys - 1} :
         \E f \in {btree_find([disk |-> disk, db |-> db], catalog[1], U32Bytes(k),
                              "intact")} :
            out' = [op |-> "find", key |-> k, ok |-> f.found, present |-> k \in DOMAIN hist.locs,
                    row_id |-> f.row_id, keys |-> <<>>, before |-> 0]
    /\ UNCHANGED <<disk, db, catalog, hist, crashed, varsTable>>

\* a cursor from btree_cursor_first to btree_cursor_at_end
IndexWalk ==
    /\ catalog # <<>> /\ IndexQuiet
    /\ out' = [op |-> "walk", key |-> 0, ok |-> TRUE, present |-> FALSE, row_id |-> NoRowId,
               keys |-> btree_cursor_keys([disk |-> disk, db |-> db], catalog[1], "intact"),
               before |-> 0]
    /\ UNCHANGED <<disk, db, catalog, hist, crashed, varsTable>>

NextIndex == IndexCreate \/ IndexInsert \/ IndexFind \/ IndexWalk
SpecIndex == InitIndex /\ [][NextIndex]_vars

\* C11: btree_insert returns true iff the key was not present; the index
\* holds one entry per call that returned true; btree_find returns the
\* locator of the successful insert and not-found for every other key; a
\* cursor walk yields the keys in strictly ascending order, each once.
C11_IndexContract ==
    /\ out.op = "insert" => out.ok = ~out.present
    /\ out.op = "insert" =>
          btree_num_keys([disk |-> disk, db |-> db], catalog[1])
             = Cardinality(DOMAIN hist.locs)
    /\ out.op = "find" =>
          /\ out.ok = out.present
          /\ out.ok => out.row_id = hist.locs[out.key]
    /\ out.op = "walk" =>
          /\ \A i \in 1..(Len(out.keys) - 1) : out.keys[i] < out.keys[i + 1]
          /\ {out.keys[i] : i \in 1..Len(out.keys)} = DOMAIN hist.locs

\* C11 while the root has room: the same contract for every call made with
\* fewer than BTREE_ORDER - 1 keys in the node.
C11_IndexContractWithRoom ==
    /\ (out.op = "insert" /\ out.before < BTREE_ORDER - 1) =>
          /\ out.ok = ~out.present
          /\ btree_num_keys([disk |-> disk, db |-> db], catalog[1])
                = Cardinality(DOMAIN hist.locs)
    /\ out.op = "find" =>
          /\ out.ok = out.present
          /\ out.ok => out.row_id = hist.locs[out.key]
    /\ out.op = "walk" =>
          /\ \A i \in 1..(Len(out.keys) - 1) : out.keys[i] < out.keys[i + 1]
          /\ {out.keys[i] : i \in 1..Len(out.keys)} = DOMAIN hist.locs

-----------------------------------------------------------------------------
(* Error handling of Engine A statements *)

\* the index key execute_insert takes from the first value of a statement
InsertKey(stmt) == SubSeq(parse_value(stmt.values[1]).integer, 1, 4)

\* whether the primary index of a table holds a key, read in the world w
IndexHolds(w, table, key) ==
    table.primary_index.present /\ btree_find(w, table.primary_index, key, "intact").found

\* C12: an INSERT whose first-column key is already in the primary index
\* returns CONSTRAINT_ERROR and changes neither table.row_count nor any page;
\* and after any INSERT the row is stored iff its key was added to the index.
C12_DuplicateKeyRejected ==
    [][(out'.op = "exec" /\ out'.plan = "PLAN_INSERT"
          /\ catalog[find_table(catalog, out'.stmt.table_name)].primary_index.present
          /\ Len(out'.stmt.values) > 0 /\ out'.stmt.values[1].kind = "int") =>
        LET ti  == find_table(catalog, out'.stmt.table_name)
            was == IndexHolds([disk |-> disk, db |-> db], catalog[ti], InsertKey(out'.stmt))
            is  == IndexHolds([disk |-> disk', db |-> db'], catalog'[ti], InsertKey(out'.stmt))
        IN  /\ was => /\ out'.result = RISTRETTO_CONSTRAINT_ERROR
                      /\ catalog' = catalog
                      /\ disk' = disk
            /\ (catalog'[ti].row_count = catalog[ti].row_count + 1) <=> (is /\ ~was)
    ]_vars

\* C13: an INSERT or SELECT naming a table that is not in the catalog
\* returns NOT_FOUND, invokes the row sink for no row and modifies no table,
\* page or index.
C13_UnknownTableNotFound ==
    [][(out'.stmt.type \in {"insert", "select"}
          /\ find_table(catalog, out'.stmt.table_name) = 0) =>
        /\ out'.result = RISTRETTO_NOT_FOUND
        /\ out'.rows = <<>>
        /\ catalog' = catalog
        /\ disk' = disk
    ]_vars

\* C13 as the code has it: such a statement returns RISTRETTO_ERROR, the
\* sink sees no row and nothing is modified.
C13_UnknownTableError ==
    [][(out'.stmt.type \in {"insert", "select"}
          /\ find_table(catalog, out'.stmt.table_name) = 0) =>
        /\ out'.result = RISTRETTO_ERROR
        /\ out'.rows = <<>>
        /\ catalog' = catalog
        /\ disk' = disk
    ]_vars

-----------------------------------------------------------------------------
(* CREATE TABLE and the catalog: one handle, a short and a 64-byte name *)

MaxTables == 3    \* catalog entries

NamesOpen   == /\ db[1].state = "none"
               /\ \E p \in Policies : RistrettoOpen(1, "a.db", p)
               /\ UNCHANGED varsTable
NamesCreate == /\ Len(catalog) < MaxTables
               /\ \E n \in {"t", LongName} :
                     RistrettoRun(1, CreateStmt(n, ColumnsIdV), FALSE, "intact")
               /\ UNCHANGED varsTable
NamesInsert == /\ RowCountOf("t") < MaxRowsA
               /\ \E s \in HandleInserts : RistrettoRun(1, s, FALSE, "intact")
               /\ UNCHANGED varsTable
NamesSelect == /\ RistrettoRun(1, SelectStmt("t", NoExpr), TRUE, "intact")
               /\ UNCHANGED varsTable

NextNames == NamesOpen \/ NamesCreate \/ NamesInsert \/ NamesSelect
SpecNames == InitA /\ [][NextNames]_vars

\* C14: CREATE TABLE with a name that an earlier CREATE TABLE registered
\* returns CONSTRAINT_ERROR and changes neither the catalog, nor a page, nor
\* the pager's page count; a successful CREATE TABLE adds exactly one entry;
\* the catalog never holds two entries with the same name.
C14_DuplicateCreateRejected ==
    [][out'.stmt.type = "create" =>
        /\ hist.owner[out'.stmt.table_name] # <<0, 0>> =>
              /\ out'.result = RISTRETTO_CONSTRAINT_ERROR
              /\ catalog' = catalog
              /\ disk' = disk
              /\ db'[out'.h].num_pages = db[out'.h].num_pages
        /\ out'.result = RISTRETTO_OK => Len(catalog') = Len(catalog) + 1
        /\ out'.result # RISTRETTO_OK => catalog' = catalog
        /\ \A i, j \in 1..Len(catalog') : catalog'[i].name = catalog'[j].name => i = j
    ]_vars

\* C14 for names of at most 63 bytes.
C14_DuplicateShortNameRejected ==
    [][(out'.stmt.type = "create" /\ Len(out'.stmt.table_name) <= 63) =>
        /\ hist.owner[out'.stmt.table_name] # <<0, 0>> =>
              /\ out'.result = RISTRETTO_CONSTRAINT_ERROR
              /\ catalog' = catalog
              /\ disk' = disk
              /\ db'[out'.h].num_pages = db[out'.h].num_pages
        /\ out'.result = RISTRETTO_OK => Len(catalog') = Len(catalog) + 1
        /\ out'.result # RISTRETTO_OK => catalog' = catalog
        /\ \A i, j \in 1..Len(catalog') :
              (catalog'[i].name = catalog'[j].name /\ catalog'[i].name = out'.stmt.table_name)
                 => i = j
    ]_vars

-----------------------------------------------------------------------------
(* parse_sql (parser.c).  An SQL text is carried as the sequence of its   *)
(* lexical items: words (keywords and identifiers, in upper case for      *)
(* keywords), punctuation and literals; the scanner's white space and     *)
(* letter case are not modelled.  AND, OR and parentheses in WHERE, the    *)
(* LIKE pattern of SHOW TABLES and the column list of an accepted SELECT   *)
(* are outside the modelled inputs.  The result is                         *)
(* [ok, stmt, wild]: wild says that statement_destroy freed the           *)
(* table_name member of a Statement that was never assigned.              *)

Word(s)  == [kind |-> "word", w |-> s, lit |-> NullTok]
Punct(c) == [kind |-> "punct", w |-> c, lit |-> NullTok]
Lit(tok)  == [kind |-> "literal", w |-> "", lit |-> tok]
EndTok   == [kind |-> "end", w |-> "", lit |-> NullTok]

\* peek at position i of a text
Peek(text, i) == IF i > Len(text) THEN EndTok ELSE text[i]

\* match_keyword at a lexical item
match_keyword(tok, keyword) == tok.kind = "word" /\ tok.w = keyword

\* expect_char at a lexical item
expect_char(tok, expected) == tok.kind = "punct" /\ tok.w = expected

\* parse_identifier succeeds on any word, keywords included
IsIdentifier(tok) == tok.kind = "word"

Accepted(stmt) == [ok |-> TRUE, stmt |-> stmt, wild |-> FALSE]
Rejected(wild) == [ok |-> FALSE, stmt |-> NoStmt, wild |-> wild]

\* parse_type: TYPE_NULL when no type keyword is there
parse_type(tok) ==
    IF match_keyword(tok, "INTEGER") \/ match_keyword(tok, "INT") THEN TYPE_INTEGER
    ELSE IF match_keyword(tok, "REAL") \/ match_keyword(tok, "FLOAT")
            \/ match_keyword(tok, "DOUBLE") THEN TYPE_REAL
    ELSE IF match_keyword(tok, "TEXT") \/ match_keyword(tok, "VARCHAR") THEN TYPE_TEXT
    ELSE TYPE_NULL

\* the scanner half of parse_value: whether a literal starts here
IsValue(tok) == tok.kind = "literal" \/ match_keyword(tok, "NULL")

\* ... and the literal it reads
ValueToken(tok) == IF tok.kind = "word" THEN NullTok ELSE tok.lit

\* parse_create_table: the column loop from column i on
RECURSIVE CreateColumns(_, _, _, _)
CreateColumns(text, i, name, columns) ==
    IF ~IsIdentifier(Peek(text, i)) THEN Rejected(FALSE)
    ELSE IF parse_type(Peek(text, i + 1)) = TYPE_NULL THEN Rejected(FALSE)
    ELSE IF expect_char(Peek(text, i + 2), ",")
    THEN CreateColumns(text, i + 3, name,
                       Append(columns, [name |-> Peek(text, i).w,
                                        type |-> parse_type(Peek(text, i + 1))]))
    ELSE IF expect_char(Peek(text, i + 2), ")")
    THEN Accepted(CreateStmt(name, Append(columns,
                                          [name |-> Peek(text, i).w,
                                           type |-> parse_type(Peek(text, i + 1))])))
    ELSE Rejected(FALSE)

\* parse_create_table, after CREATE TABLE
parse_create_table(text, i) ==
    IF ~IsIdentifier(Peek(text, i)) THEN Rejected(FALSE)
    ELSE IF ~expect_char(Peek(text, i + 1), "(") THEN Rejected(FALSE)
    ELSE CreateColumns(text, i + 2, Peek(text, i).w, <<>>)

\* parse_insert: the value loop from value i on
RECURSIVE InsertLiterals(_, _, _, _)
InsertLiterals(text, i, name, values) ==
    IF ~IsValue(Peek(text, i)) THEN Rejected(FALSE)
    ELSE IF expect_char(Peek(text, i + 1), ",")
    THEN InsertLiterals(text, i + 2, name, Append(values, ValueToken(Peek(text, i))))
    ELSE IF expect_char(Peek(text, i + 1), ")")
    THEN Accepted(InsertStmt(name, Append(values, ValueToken(Peek(text, i)))))
    ELSE Rejected(FALSE)

\* parse_insert, after INSERT
parse_insert(text, i) ==
    IF ~match_keyword(Peek(text, i), "INTO") THEN Rejected(FALSE)
    ELSE IF ~IsIdentifier(Peek(text, i + 1)) THEN Rejected(FALSE)
    ELSE IF ~match_keyword(Peek(text, i + 2), "VALUES") THEN Rejected(FALSE)
    ELSE IF ~expect_char(Peek(text, i + 3), "(") THEN Rejected(FALSE)
    ELSE InsertLiterals(text, i + 4, Peek(text, i + 1).w, <<>>)

\* parse_primary: [ok, leaf]
parse_primary(tok) ==
    IF IsValue(tok) THEN [ok |-> TRUE, leaf |-> LiteralLeaf(ValueToken(tok))]
    ELSE IF IsIdentifier(tok) THEN [ok |-> TRUE, leaf |-> ColumnLeaf(tok.w)]
    ELSE [ok |-> FALSE, leaf |-> NoLeaf]

\* the comparison operators of parse_comparison
ComparisonOps == {"=", "<", "<=", ">", ">=", "!="}

\* parse_comparison at position i: [ok, expr]; a primary with no operator
\* after it is returned as it is
parse_comparison(text, i) ==
    IF ~parse_primary(Peek(text, i)).ok THEN [ok |-> FALSE, expr |-> NoExpr]
    ELSE IF ~(Peek(text, i + 1).kind = "punct" /\ Peek(text, i + 1).w \in ComparisonOps)
    THEN [ok |-> TRUE,
          expr |-> [NoExpr EXCEPT !.type = parse_primary(Peek(text, i)).leaf.type,
                                  !.left = parse_primary(Peek(text, i)).leaf]]
    ELSE IF ~parse_primary(Peek(text, i + 2)).ok THEN [ok |-> FALSE, expr |-> NoExpr]
    ELSE [ok |-> TRUE,
          expr |-> Binary(Peek(text, i + 1).w, parse_primary(Peek(text, i)).leaf,
                          parse_primary(Peek(text, i + 2)).leaf)]

\* parse_select from the table name on: table_name is assigned by now
SelectTable(text, i) ==
    IF ~IsIdentifier(Peek(text, i)) THEN Rejected(FALSE)
    ELSE IF ~match_keyword(Peek(text, i + 1), "WHERE")
    THEN Accepted(SelectStmt(Peek(text, i).w, NoExpr))
    ELSE IF ~parse_comparison(text, i + 2).ok THEN Rejected(FALSE)
    ELSE Accepted(SelectStmt(Peek(text, i).w, parse_comparison(text, i + 2).expr))

\* parse_select at FROM: a failure here destroys a statement whose
\* table_name was never assigned
SelectFrom(text, i) ==
    IF ~match_keyword(Peek(text, i), "FROM") THEN Rejected(TRUE)
    ELSE SelectTable(text, i + 1)

\* parse_select: the column list from column i on
RECURSIVE SelectColumns(_, _)
SelectColumns(text, i) ==
    IF ~IsIdentifier(Peek(text, i)) THEN Rejected(TRUE)
    ELSE IF expect_char(Peek(text, i + 1), ",") THEN SelectColumns(text, i + 2)
    ELSE SelectFrom(text, i + 1)

\* parse_select, after SELECT
parse_select(text, i) ==
    IF expect_char(Peek(text, i), "*") THEN SelectFrom(text, i + 1)
    ELSE SelectColumns(text, i)

\* parse_show_tables with no LIKE pattern
parse_show_tables == Accepted([NoStmt EXCEPT !.type = "show_tables"])

\* parse_describe (type "describe") and parse_show_create_table
parse_named(text, i, type) ==
    IF ~IsIdentifier(Peek(text, i)) THEN Rejected(FALSE)
    ELSE Accepted([NoStmt EXCEPT !.type = type, !.table_name = Peek(text, i).w])

\* parse_sql
parse_sql(text) ==
    IF match_keyword(Peek(text, 1), "CREATE")
    THEN (IF match_keyword(Peek(text, 2), "TABLE") THEN parse_create_table(text, 3)
          ELSE Rejected(FALSE))
    ELSE IF match_keyword(Peek(text, 1), "INSERT") THEN parse_insert(text, 2)
    ELSE IF match_keyword(Peek(text, 1), "SELECT") THEN parse_select(text, 2)
    ELSE IF match_keyword(Peek(text, 1), "SHOW")
    THEN (IF match_keyword(Peek(text, 2), "TABLES") THEN parse_show_tables
          ELSE IF match_keyword(Peek(text, 2), "CREATE") /\ match_keyword(Peek(text, 3), "TABLE")
          THEN parse_named(text, 4, "show_create_table")
          ELSE Rejected(FALSE))
    ELSE IF match_keyword(Peek(text, 1), "DESCRIBE") \/ match_keyword(Peek(text, 1), "DESC")
    THEN parse_named(text, 2, "describe")
    ELSE Rejected(FALSE)

\* ristretto_exec / ristretto_query of an SQL text.  A rejected text returns
\* PARSE_ERROR before any plan is made; out.plan is then "rejected", or
\* "rejected_wild" when statement_destroy freed the unassigned table_name.
\* heap says what that pointer holds: "null" (free does nothing) or
\* "garbage" (free of a wild pointer, which ends the process)
RistrettoSql(h, text, has_callback, uaf, heap) ==
    \E p \in {parse_sql(text)} :
       IF p.ok THEN RistrettoRun(h, p.stmt, has_callback, uaf)
       ELSE /\ ~crashed /\ db[h].state = "open"
            /\ crashed' = (p.wild /\ heap = "garbage")
            /\ out' = [op |-> IF p.wild /\ heap = "garbage" THEN "fault"
                              ELSE IF has_callback THEN "query" ELSE "exec",
                       h |-> h, gen |-> db[h].gen, stmt |-> NoStmt,
                       plan |-> IF p.wild THEN "rejected_wild" ELSE "rejected",
                       result |-> RISTRETTO_PARSE_ERROR, rows |-> <<>>]
            /\ UNCHANGED <<disk, db, catalog, hist>>

-----------------------------------------------------------------------------
(* SQL texts on one handle: well-formed statements, INSERTs that fail the *)
(* checks of execute_insert, and texts that parse_sql rejects             *)

MaxSqlRows == 1    \* rows per table

Heaps == {"null", "garbage"}

SqlColumns(columns) ==
    <<Punct("("), Word(columns[1].name), Word("INTEGER"), Punct(","),
      Word(columns[2].name), Word(IF columns[2].type = TYPE_TEXT THEN "TEXT" ELSE "INTEGER"),
      Punct(")")>>

SqlCreate(name, columns) == <<Word("CREATE"), Word("TABLE"), Word(name)>> \o SqlColumns(columns)

SqlInsertInto(name) == <<Word("INSERT"), Word("INTO"), Word(name), Word("VALUES"), Punct("(")>>

SqlSelectFrom(name) == <<Word("SELECT"), Punct("*"), Word("FROM"), Word(name)>>

\* CREATE TABLE t (id INTEGER, v INTEGER); CREATE TABLE u (id INTEGER, name TEXT)
SqlCreates == {SqlCreate("t", ColumnsIdV), SqlCreate("u", ColumnsIdName)}

\* INSERT INTO t VALUES (7, 30) | (NULL, 30) and INSERT INTO u VALUES (7, 'ab')
SqlGoodInserts ==
    {SqlInsertInto("t") \o <<Lit(IntTok(D7)), Punct(","), Lit(IntTok(D30)), Punct(")")>>,
     SqlInsertInto("t") \o <<Word("NULL"), Punct(","), Lit(IntTok(D30)), Punct(")")>>,
     SqlInsertInto("u") \o <<Lit(IntTok(D7)), Punct(","), Lit(Tok("text", <<97, 98>>)), Punct(")")>>}

\* INSERT INTO t VALUES (7) | (7, 30, 5) | (7, 'ab') | ('ab', 30) and
\* INSERT INTO u VALUES (7, 30)
SqlBadInserts ==
    {SqlInsertInto("t") \o <<Lit(IntTok(D7)), Punct(")")>>,
     SqlInsertInto("t") \o <<Lit(IntTok(D7)), Punct(","), Lit(IntTok(D30)), Punct(","), Lit(IntTok(D5)),
                            Punct(")")>>,
     SqlInsertInto("t") \o <<Lit(IntTok(D7)), Punct(","), Lit(Tok("text", <<97, 98>>)), Punct(")")>>,
     SqlInsertInto("t") \o <<Lit(Tok("text", <<97, 98>>)), Punct(","), Lit(IntTok(D30)), Punct(")")>>,
     SqlInsertInto("u") \o <<Lit(IntTok(D7)), Punct(","), Lit(IntTok(D30)), Punct(")")>>}

\* SELECT * FROM t [WHERE id = 7 | WHERE v > 5]; SELECT * FROM u;
\* SELECT * FROM s (no such table)
SqlSelects ==
    {SqlSelectFrom("t"),
     SqlSelectFrom("t") \o <<Word("WHERE"), Word("id"), Punct("="), Lit(IntTok(D7))>>,
     SqlSelectFrom("t") \o <<Word("WHERE"), Word("v"), Punct(">"), Lit(IntTok(D5))>>,
     SqlSelectFrom("u"),
     SqlSelectFrom("s")}

\* SELEC * FROM t; CREATE t (...); CREATE TABLE t (id FOO); CREATE TABLE t (id INTEGER,);
\* INSERT INTO t VALUES (7, 30; INSERT t VALUES (7); SELECT * FRO t; SELECT id v FROM t;
\* SELECT * FROM t WHERE; SELECT * FROM t WHERE v >; SELECT * FROM 7; the empty text
SqlRejected ==
    {<<Word("SELEC"), Punct("*"), Word("FROM"), Word("t")>>,
     <<Word("CREATE"), Word("t")>> \o SqlColumns(ColumnsIdV),
     <<Word("CREATE"), Word("TABLE"), Word("t"), Punct("("), Word("id"), Word("FOO"), Punct(")")>>,
     <<Word("CREATE"), Word("TABLE"), Word("t"), Punct("("), Word("id"), Word("INTEGER"),
       Punct(","), Punct(")")>>,
     SqlInsertInto("t") \o <<Lit(IntTok(D7)), Punct(","), Lit(IntTok(D30))>>,
     <<Word("INSERT"), Word("t"), Word("VALUES"), Punct("("), Lit(IntTok(D7)), Punct(")")>>,
     <<Word("SELECT"), Punct("*"), Word("FRO"), Word("t")>>,
     <<Word("SELECT"), Word("id"), Word("v"), Word("FROM"), Word("t")>>,
     SqlSelectFrom("t") \o <<Word("WHERE")>>,
     SqlSelectFrom("t") \o <<Word("WHERE"), Word("v"), Punct(">")>>,
     <<Word("SELECT"), Punct("*"), Word("FROM"), Lit(IntTok(D7))>>,
     <<Word("SHOW"), Word("CREATE"), Word("t")>>,
     <<Word("DESCRIBE")>>,
     <<>>}

\* SHOW TABLES; DESCRIBE t | s; SHOW CREATE TABLE u | s
SqlShows ==
    {<<Word("SHOW"), Word("TABLES")>>,
     <<Word("DESCRIBE"), Word("t")>>, <<Word("DESC"), Word("s")>>,
     <<Word("SHOW"), Word("CREATE"), Word("TABLE"), Word("u")>>,
     <<Word("SHOW"), Word("CREATE"), Word("TABLE"), Word("s")>>}

SqlOpen   == /\ db[1].state = "none"
             /\ \E p \in Policies : RistrettoOpen(1, "a.db", p)
             /\ UNCHANGED varsTable
SqlCreateTable == /\ \E t \in SqlCreates : RistrettoSql(1, t, FALSE, "intact", "null")
                  /\ UNCHANGED varsTable
SqlInsert == /\ \E t \in SqlGoodInserts \cup SqlBadInserts :
                   /\ RowCountOf(parse_sql(t).stmt.table_name) < MaxSqlRows
                   /\ RistrettoSql(1, t, FALSE, "intact", "null")
             /\ UNCHANGED varsTable
SqlSelect == /\ \E t \in SqlSelects \cup SqlShows : RistrettoSql(1, t, TRUE, "intact", "null")
             /\ UNCHANGED varsTable
SqlReject == /\ \E t \in SqlRejected, cb \in BOOLEAN :
                   \E heap \in (IF parse_sql(t).wild THEN Heaps ELSE {"null"}) :
                      RistrettoSql(1, t, cb, "intact", heap)
             /\ UNCHANGED varsTable

NextSql == SqlOpen \/ SqlCreateTable \/ SqlInsert \/ SqlSelect \/ SqlReject
SpecSql == InitA /\ [][NextSql]_vars

-----------------------------------------------------------------------------
(* The checks of execute_insert and of parse_sql *)

\* the Values of the literals of an INSERT statement
InsertedValues(stmt) == [i \in 1..Len(stmt.values) |-> parse_value(stmt.values[i])]

\* the checks the claim names: as many values as columns, and each value
\* NULL, of the column's type, or an INTEGER for a REAL column
PassesChecks(table, values) ==
    /\ Len(values) = table.column_count
    /\ \A i \in 1..Len(values) :
          \/ values[i].type = TYPE_NULL
          \/ values[i].type = table.columns[i].type
          \/ values[i].type = TYPE_INTEGER /\ table.columns[i].type = TYPE_REAL

\* one more row fits in the table's page
FitsInPage(table) ==
    PAGE_HEADER_SIZE + (table.row_count + 1) * table.row_size <= PAGE_SIZE

\* C15: an INSERT with a wrong value count or a mistyped non-NULL value
\* returns CONSTRAINT_ERROR and leaves row_count, the data page and the index
\* as they were; an INSERT that passes the checks and fits in the page
\* returns OK and raises row_count by one.
C15_InsertChecked ==
    [][(out'.stmt.type = "insert" /\ out'.plan = "PLAN_INSERT") =>
        LET ti == find_table(catalog, out'.stmt.table_name)
        IN  IF ~PassesChecks(catalog[ti], InsertedValues(out'.stmt))
            THEN /\ out'.op = "exec"
                 /\ out'.result = RISTRETTO_CONSTRAINT_ERROR
                 /\ catalog' = catalog
                 /\ disk' = disk
            ELSE FitsInPage(catalog[ti]) =>
                    /\ out'.op = "exec"
                    /\ out'.result = RISTRETTO_OK
                    /\ catalog'[ti].row_count = catalog[ti].row_count + 1
    ]_vars

\* C15 for the calls that return: the failed checks as the claim has them,
\* and an INSERT that passes them returns OK with row_count raised by one
\* unless the process dies in it.
C15_InsertCheckedOnReturn ==
    [][(out'.stmt.type = "insert" /\ out'.plan = "PLAN_INSERT") =>
        LET ti == find_table(catalog, out'.stmt.table_name)
        IN  IF ~PassesChecks(catalog[ti], InsertedValues(out'.stmt))
            THEN /\ out'.op = "exec"
                 /\ out'.result = RISTRETTO_CONSTRAINT_ERROR
                 /\ catalog' = catalog
                 /\ disk' = disk
            ELSE (FitsInPage(catalog[ti]) /\ out'.op = "exec") =>
                    /\ out'.result = RISTRETTO_OK
                    /\ catalog'[ti].row_count = catalog[ti].row_count + 1
    ]_vars

\* C16: a text that parse_sql rejects returns PARSE_ERROR, reaches the sink
\* with no row and leaves the catalog, the files and the pager as they were.
C16_RejectedLeavesNoTrace ==
    [][out'.plan \in {"rejected", "rejected_wild"} =>
        /\ out'.op \in {"exec", "query"}
        /\ out'.result = RISTRETTO_PARSE_ERROR
        /\ out'.rows = <<>>
        /\ catalog' = catalog
        /\ disk' = disk
        /\ db' = db
    ]_vars

\* C16 for every rejected text but a SELECT that fails before its table name.
C16_RejectedBeforeSelectLeavesNoTrace ==
    [][out'.plan = "rejected" =>
        /\ out'.op \in {"exec", "query"}
        /\ out'.result = RISTRETTO_PARSE_ERROR
        /\ out'.rows = <<>>
        /\ catalog' = catalog
        /\ disk' = disk
        /\ db' = db
    ]_vars

\* C17: a query that returns a result code other than OK has invoked the
\* row sink zero times.
C17_FailedQueryDeliversNothing ==
    (out.op = "query" /\ out.result # RISTRETTO_OK) => out.rows = <<>>

\* a query on a catalog with a filled table has failed
C17_Witness ==
    /\ out.op = "query" /\ out.result # RISTRETTO_OK
    /\ out.stmt.type \in {"select", "describe", "show_create_table"}
    /\ \E i \in 1..Len(catalog) : catalog[i].row_count > 0

-----------------------------------------------------------------------------
(* Engine B: a failed append *)

\* C18: when table_append_row returns false, num_rows, write_offset and the
\* since-sync counter are as before, table_select still delivers every row
\* appended before, and the handle is usable for later calls.
C18_FailedAppendLeavesTable ==
    [][(ret'.op = "append" /\ ~ret'.val /\ ~crashed') =>
        /\ file'.hdr.num_rows = file.hdr.num_rows
        /\ tbl'.write_offset = tbl.write_offset
        /\ tbl'.rows_since_sync = tbl.rows_since_sync
        /\ tbl'.mapped
        /\ ~table_select(tbl', file', "").fault
        /\ table_select(tbl', file', "").rows = table_select(tbl, file, "").rows
    ]_vars

\* C18 without the handle: a failed append leaves the three counters and the
\* bytes of the file as they were.
C18_FailedAppendKeepsCounters ==
    [][(ret'.op = "append" /\ ~ret'.val /\ ~crashed') =>
        /\ file'.hdr = file.hdr
        /\ file'.mem = file.mem
        /\ tbl'.write_offset = tbl.write_offset
        /\ tbl'.rows_since_sync = tbl.rows_since_sync
    ]_vars

-----------------------------------------------------------------------------
(* Engine B schemas: column counts around MAX_COLUMNS and column names     *)
(* around MAX_COLUMN_NAME.  A column definition is [words, has_arg, arg];  *)
(* out records the definitions handed to the last table_create.            *)

MaxSchemaColumns == 16    \* columns of the longest schema
MaxNameLen       == 9     \* bytes of the longest column name
MaxSchemaRows    == 1     \* rows appended to a created table

Def(name, type, has_arg, arg) == [words |-> <<name, type>>, has_arg |-> has_arg, arg |-> arg]

SchemaOf(defs) ==
    [paren |-> TRUE,
     items |-> [i \in 1..Len(defs) |-> ColumnDef(defs[i].words, defs[i].has_arg, defs[i].arg)]]

\* c INTEGER, c INTEGER, ... (n times)
CountDefs == {[i \in 1..n |-> Def("c", "INTEGER", FALSE, 0)] : n \in 1..MaxSchemaColumns}

\* one column named by the first k bytes of "timestamp", of each type
NameDefs ==
    {<<Def(SubSeq("timestamp", 1, k), type, FALSE, 0)>> :
        k \in 1..MaxNameLen, type \in {"INTEGER", "REAL", "TEXT"}}

\* timestamp INTEGER, user_id INTEGER, event TEXT(32), and the same with ts
EventDefs ==
    {<<Def(n, "INTEGER", FALSE, 0), Def("user_id", "INTEGER", FALSE, 0),
       Def("event", "TEXT", TRUE, 32)>> : n \in {"timestamp", "ts"}}

SchemaDefs == CountDefs \cup NameDefs \cup EventDefs

SCreate == /\ \E defs \in SchemaDefs :
                 /\ TableCreate(SchemaOf(defs))
                 /\ out' = [op |-> "create", defs |-> defs]
           /\ UNCHANGED <<disk, db, catalog, hist>>
SAppend == /\ tbl.live /\ file.hdr.num_rows < MaxSchemaRows
           /\ \E v \in GrowValues(file.hdr.columns), ms_ok \in BOOLEAN :
                 /\ TableAppend(v, FALSE, TRUE, TRUE, ms_ok)
                 /\ UNCHANGED appended
           /\ UNCHANGED varsA
SClose  == TableClose /\ UNCHANGED varsA
SOpen   == TableOpen /\ UNCHANGED varsA
SSelect == TableSelect("") /\ UNCHANGED varsA

NextSchema == SCreate \/ SAppend \/ SClose \/ SOpen \/ SSelect
SpecSchema == InitB /\ [][NextSchema]_vars

\* a definition `name TYPE` with a supported type
WellFormed(def) == Len(def.words) = 2 /\ def.words[2] \in {"INTEGER", "REAL", "TEXT"}

\* the length the specification gives a column
SpecLength(def) ==
    IF def.words[2] = "TEXT" THEN (IF def.has_arg THEN Min(def.arg, 255) ELSE 64) ELSE 8

RECURSIVE SpecRowSize(_, _)
SpecRowSize(defs, n) == IF n = 0 THEN 0 ELSE SpecRowSize(defs, n - 1) + SpecLength(defs[n])

\* table_create has just been called on well-formed definitions
Created == ret.op = "create" /\ out.op = "create"
              /\ \A i \in 1..Len(out.defs) : WellFormed(out.defs[i])

\* C19: table_create succeeds on 14 well-formed columns with column_count 14
\* and fails on 15 or more.
C19_FifteenColumnsRejected ==
    (Created /\ Len(out.defs) >= MAX_COLUMNS) =>
        IF Len(out.defs) = MAX_COLUMNS
        THEN ret.val /\ file.hdr.column_count = MAX_COLUMNS
        ELSE ~ret.val

\* C19 as the code has it: with names of at most 7 bytes, table_create
\* succeeds on any number of columns and keeps the first 14 at most.
C19_FirstFourteenKept ==
    (Created /\ \A i \in 1..Len(out.defs) : Len(out.defs[i].words[1]) < MAX_COLUMN_NAME) =>
        /\ ret.val
        /\ file.hdr.column_count = Min(Len(out.defs), MAX_COLUMNS)
        /\ file.hdr.row_size = SpecRowSize(out.defs, Min(Len(out.defs), MAX_COLUMNS))

\* C20: a definition `name TYPE` with a supported type is accepted whatever
\* the length of the name; the name is stored as its first 7 bytes, and
\* table_create succeeds with the expected column_count and row_size.
C20_LongNamesAccepted ==
    (Created /\ Len(out.defs) <= MAX_COLUMNS) =>
        /\ ret.val
        /\ file.hdr.column_count = Len(out.defs)
        /\ file.hdr.row_size = SpecRowSize(out.defs, Len(out.defs))
        /\ \A i \in 1..Len(out.defs) :
              /\ file.hdr.columns[i].name = strncpy(out.defs[i].words[1], MAX_COLUMN_NAME - 1)
              /\ file.hdr.columns[i].length = SpecLength(out.defs[i])

\* C20 for names of at most 7 bytes.
C20_ShortNamesAccepted ==
    (Created /\ Len(out.defs) <= MAX_COLUMNS
       /\ \A i \in 1..Len(out.defs) : Len(out.defs[i].words[1]) < MAX_COLUMN_NAME) =>
        /\ ret.val
        /\ file.hdr.column_count = Len(out.defs)
        /\ file.hdr.row_size = SpecRowSize(out.defs, Len(out.defs))
        /\ \A i \in 1..Len(out.defs) :
              /\ file.hdr.columns[i].name = out.defs[i].words[1]
              /\ file.hdr.columns[i].length = SpecLength(out.defs[i])

-----------------------------------------------------------------------------
(* Engine B schemas: TEXT sizes around the uint8_t length, and column      *)
(* lists that are not lists of `name TYPE`.  A schema text is              *)
(* [paren, defs]; out records the text handed to the last table_create.    *)

\* n of the TEXT(n) definitions
TextArgs == {0 - 256, 0 - 1, 0, 1, 32, 255, 256, 300}

\* a column definition that is a name only, and an empty one (", ,")
NameOnly(name) == [words |-> <<name>>, has_arg |-> FALSE, arg |-> 0]
EmptyDef       == [words |-> <<>>, has_arg |-> FALSE, arg |-> 0]

SchemaText(paren, defs) == [paren |-> paren, defs |-> defs]

\* (a TEXT(n), b TYPE), and (a TEXT, b TEXT(n))
SizedTexts ==
    {SchemaText(TRUE, <<Def("a", "TEXT", TRUE, n), Def("b", type, FALSE, 0)>>) :
        n \in TextArgs, type \in {"INTEGER", "REAL", "TEXT"}}
    \cup {SchemaText(TRUE, <<Def("a", "TEXT", FALSE, 0), Def("b", "TEXT", TRUE, n)>>) :
             n \in TextArgs}

\* a INTEGER without parentheses, (), (a), (a, b INTEGER), (a BLOB),
\* (a INTEGER, b BLOB), (a INTEGER, b), (a INTEGER, ), (a INTEGER, b, c BLOB)
OddTexts ==
    {SchemaText(FALSE, <<Def("a", "INTEGER", FALSE, 0)>>),
     SchemaText(TRUE, <<>>),
     SchemaText(TRUE, <<NameOnly("a")>>),
     SchemaText(TRUE, <<NameOnly("a"), Def("b", "INTEGER", FALSE, 0)>>),
     SchemaText(TRUE, <<Def("a", "BLOB", FALSE, 0)>>),
     SchemaText(TRUE, <<Def("a", "INTEGER", FALSE, 0), Def("b", "BLOB", FALSE, 0)>>),
     SchemaText(TRUE, <<Def("a", "INTEGER", FALSE, 0), NameOnly("b")>>),
     SchemaText(TRUE, <<Def("a", "INTEGER", FALSE, 0), EmptyDef>>),
     SchemaText(TRUE, <<Def("a", "INTEGER", FALSE, 0), NameOnly("b"),
                        Def("c", "BLOB", FALSE, 0)>>)}

SchemaTexts == SizedTexts \cup OddTexts

\* the schema of a text: strchr('('), strrchr(')') and the items between
SchemaOfText(text) == [SchemaOf(text.defs) EXCEPT !.paren = text.paren]

PCreate == /\ \E text \in SchemaTexts :
                 /\ TableCreate(SchemaOfText(text))
                 /\ out' = [op |-> "create", paren |-> text.paren, defs |-> text.defs]
           /\ UNCHANGED <<disk, db, catalog, hist>>

NextParse == PCreate \/ SAppend \/ SClose \/ SOpen \/ SSelect
SpecParse == InitB /\ [][NextParse]_vars

RECURSIVE LengthSum(_, _)
LengthSum(cols, n) == IF n = 0 THEN 0 ELSE LengthSum(cols, n - 1) + cols[n].length

\* offsets are prefix sums of the lengths and row_size is their total
PrefixSums(hdr) ==
    /\ \A i \in 1..hdr.column_count : hdr.columns[i].offset = LengthSum(hdr.columns, i - 1)
    /\ hdr.row_size = LengthSum(hdr.columns, hdr.column_count)

\* table_create has just accepted a schema text
Accepting == ret.op = "create" /\ ret.val /\ out.op = "create"

\* C21: in an accepted schema TEXT(n) has length n for 1 <= n <= 255, 255
\* for n > 255 and at least 1 for n <= 0, TEXT has length 64, INTEGER and
\* REAL have length 8, offsets are prefix sums and row_size is the total.
C21_TextLengthClamped ==
    Accepting =>
        /\ PrefixSums(file.hdr)
        /\ \A i \in 1..file.hdr.column_count :
              LET def == out.defs[i]
                  len == file.hdr.columns[i].length
              IN  IF def.words[2] = "TEXT"
                  THEN /\ 1 <= len /\ len <= 255
                       /\ (~def.has_arg) => len = 64
                       /\ (def.has_arg /\ 1 <= def.arg /\ def.arg <= 255) => len = def.arg
                       /\ (def.has_arg /\ def.arg > 255) => len = 255
                  ELSE len = 8

\* C21 without the lower clamp: the same for n >= 1; for n <= 0 the
\* length is n modulo 256.
C21_TextLengthCapped ==
    Accepting =>
        /\ PrefixSums(file.hdr)
        /\ \A i \in 1..file.hdr.column_count :
              LET def == out.defs[i]
                  len == file.hdr.columns[i].length
              IN  IF def.words[2] = "TEXT"
                  THEN /\ 0 <= len /\ len <= 255
                       /\ (~def.has_arg) => len = 64
                       /\ (def.has_arg /\ 1 <= def.arg /\ def.arg <= 255) => len = def.arg
                       /\ (def.has_arg /\ def.arg > 255) => len = 255
                       /\ (def.has_arg /\ def.arg <= 0) => len = def.arg % 256
                  ELSE len = 8

\* every item of a parenthesised, non-empty list is `name TYPE` or
\* `name TEXT(n)` with a supported type
WellFormedText(text) ==
    /\ text.paren /\ Len(text.defs) > 0
    /\ \A i \in 1..Len(text.defs) : WellFormed(text.defs[i])

\* C22: table_create succeeds only on a parenthesised list whose items are
\* all well-formed.
C22_OnlyWellFormedLists == Accepting => WellFormedText(out)

\* an item with an unsupported type that follows well-formed items only
BadTypeReached(text) ==
    \E i \in 1..Len(text.defs) :
        /\ Len(text.defs[i].words) = 2 /\ ~WellFormed(text.defs[i])
        /\ \A j \in 1..(i - 1) : WellFormed(text.defs[j])

\* C22 as the code has it: a text without parentheses, an empty list, a
\* first item without a type and an unsupported type after well-formed
\* items fail the create; a failed create leaves the file as it was; a
\* successful one has at least a well-formed first item, and keeps the
\* items before the first one that lacks a type.
C22_RejectedLeavesFile ==
    [][(ret'.op = "create" /\ out'.op = "create") =>
          /\ (~out'.paren \/ Len(out'.defs) = 0 \/ Len(out'.defs[1].words) < 2
                \/ BadTypeReached(out')) => ~ret'.val
          /\ ~ret'.val => file' = file
          /\ ret'.val =>
                /\ out'.paren /\ Len(out'.defs) > 0 /\ WellFormed(out'.defs[1])
                /\ file'.hdr.num_rows = 0
                /\ \A i \in 1..file'.hdr.column_count : WellFormed(out'.defs[i])
                /\ \/ file'.hdr.column_count = Len(out'.defs)
                   \/ Len(out'.defs[file'.hdr.column_count + 1].words) < 2]_vars

-----------------------------------------------------------------------------
(* Engine B: the periodic msync of table_append_row.  One table of small   *)
(* rows is appended to past SYNC_INTERVAL_ROWS; the 100 ms timer may       *)
(* expire during the first appends only, and every msync may fail.  out    *)
(* records whether the timer had expired and the msync the call issued.    *)

MaxSyncRows  == 514    \* appends (SYNC_INTERVAL_ROWS and two more)
SyncFreeRows == 2      \* appends that choose whether the timer has expired

YCreate == /\ TableCreate(SchemaIdName)
           /\ out' = [op |-> "create", elapsed |-> FALSE, msync |-> NoSync]
           /\ UNCHANGED <<disk, db, catalog, hist>>
YAppend == /\ tbl.live /\ file.hdr.num_rows < MaxSyncRows
           /\ \E v \in GrowValues(file.hdr.columns),
                 elapsed \in (IF file.hdr.num_rows < SyncFreeRows THEN BOOLEAN ELSE {FALSE}),
                 ms_ok \in BOOLEAN :
                  /\ TableAppend(v, elapsed, TRUE, TRUE, ms_ok)
                  /\ out' = [op |-> "append", elapsed |-> elapsed,
                             msync |-> table_append_row(tbl, file, v, elapsed,
                                                        TRUE, TRUE, ms_ok).msync]
           /\ UNCHANGED <<appended, disk, db, catalog, hist>>
YFlush  == /\ tbl.live
           /\ file.hdr.num_rows <= SyncFreeRows \/ tbl.rows_since_sync >= SYNC_INTERVAL_ROWS
           /\ \E ms_ok \in BOOLEAN :
                  /\ TableFlush(ms_ok)
                  /\ out' = [op |-> "flush", elapsed |-> FALSE,
                             msync |-> table_flush(tbl, ms_ok).msync]
           /\ UNCHANGED <<disk, db, catalog, hist>>

NextSync == YCreate \/ YAppend \/ YFlush
SpecSync == InitB /\ [][NextSync]_vars

\* C23: an append that returns true without a failed msync leaves fewer than
\* 512 rows since the last sync; an append that brings the counter to 512, or
\* that finds the timer expired, issues msync over [0, write_offset) and, if
\* it succeeds, resets the counter; the counter is at 512 or more only after
\* a call whose msync failed.
C23_SyncEvery512Rows ==
    /\ (ret.op = "append" /\ out.op = "append" /\ ret.val) =>
          /\ ~(out.msync.issued /\ ~out.msync.ok) => tbl.rows_since_sync < SYNC_INTERVAL_ROWS
          /\ out.elapsed => out.msync.issued
          /\ out.msync.issued => out.msync.len = tbl.write_offset
          /\ (out.msync.issued /\ out.msync.ok) => tbl.rows_since_sync = 0
    /\ (tbl.live /\ tbl.rows_since_sync >= SYNC_INTERVAL_ROWS) =>
          out.op \in {"append", "flush"} /\ out.msync.issued /\ ~out.msync.ok

\* the 512th consecutive append has issued a successful msync
C23_Witness ==
    /\ ret.op = "append" /\ out.op = "append" /\ ret.val /\ ~out.elapsed
    /\ file.hdr.num_rows = SYNC_INTERVAL_ROWS
    /\ out.msync.issued /\ out.msync.ok
    /\ out.msync.len = TABLE_HEADER_SIZE + SYNC_INTERVAL_ROWS * file.hdr.row_size
    /\ tbl.rows_since_sync = 0

-----------------------------------------------------------------------------
(* The pager on its own: one pager on a.db, the calls pager_get_page and   *)
(* pager_allocate_page, and a caller that stores its page number plus one  *)
(* into the first byte of a page it got.  out records the last call.       *)

MaxPageNum == 3    \* highest page number asked for

PgOpen == /\ db[1].state = "none"
          /\ \E p \in Policies : RistrettoOpen(1, "a.db", p)
          /\ UNCHANGED varsTable

PgGet == /\ ~crashed /\ db[1].state = "open"
         /\ \E n \in 0..MaxPageNum :
               LET g == pager_get_page([disk |-> disk, db |-> db], 1, n)
               IN  /\ disk' = g.w.disk
                   /\ db' = g.w.db
                   /\ out' = [op |-> "get", page_num |-> n, page |-> g.page]
         /\ UNCHANGED <<catalog, hist, crashed>>
         /\ UNCHANGED varsTable

PgAllocate == /\ ~crashed /\ db[1].state = "open" /\ db[1].num_pages <= MaxPageNum
              /\ LET a == pager_allocate_page([disk |-> disk, db |-> db], 1)
                 IN  /\ disk' = a.w.disk
                     /\ db' = a.w.db
                     /\ crashed' = a.fault
                     /\ out' = [op |-> "allocate", page_num |-> a.page_num,
                                page |-> a.w.db[1].pages[a.page_num]]
              /\ UNCHANGED <<catalog, hist>>
              /\ UNCHANGED varsTable

\* p = pager_get_page(pager, n); p[0] = n + 1
PgStore == /\ ~crashed /\ db[1].state = "open"
           /\ \E n \in DOMAIN db[1].pages :
                 LET g == pager_get_page([disk |-> disk, db |-> db], 1, n)
                     t == Resolve(g)
                 IN  /\ crashed' = ~t.ok
                     /\ disk' = IF t.ok THEN Store(g.w, t, 0, <<n + 1>>).disk ELSE disk
                     /\ db' = g.w.db
                     /\ out' = [op |-> "store", page_num |-> n, page |-> g.page]
           /\ UNCHANGED <<catalog, hist>>
           /\ UNCHANGED varsTable

NextPager == PgOpen \/ PgGet \/ PgAllocate \/ PgStore
SpecPager == InitA /\ [][NextPager]_vars

\* C24: every page-table entry pages[n] of an open pager points into the
\* current mapping at offset n * 4096, and what the caller stored through a
\* page lies at that page's file offset.
C24_EntriesFollowMapping ==
    (~crashed /\ db[1].state = "open") =>
        /\ \A n \in DOMAIN db[1].pages :
              db[1].pages[n] = db[1].base + n * PAGE_SIZE
        /\ \A k \in 0..MaxPageNum :
              Rd(disk["a.db"].mem, k * PAGE_SIZE) \in {0, k + 1}

\* C24 as the code has it: a call computes an entry from the mapping of the
\* moment, only when the entry is null, and never touches the others.
C24_EntriesSetOnce ==
    [][(db[1].state = "open" /\ db'[1].state = "open") =>
          /\ \A n \in DOMAIN db[1].pages :
                n \in DOMAIN db'[1].pages /\ db'[1].pages[n] = db[1].pages[n]
          /\ \A n \in DOMAIN db'[1].pages \ DOMAIN db[1].pages :
                db'[1].pages[n] = db'[1].base + n * PAGE_SIZE]_vars

-----------------------------------------------------------------------------
(* Engine B: where table_append_row writes *)

\* the last call was an append that returned true; its values are the last
\* of the history
Appended == ret.op = "append" /\ ret.val /\ appended # <<>>

\* the slot of the row just appended
SlotBase == tbl.write_offset - file.hdr.row_size

\* one past the highest byte table_pack_row writes for column i of the row
\* just appended
ColumnTop(i) ==
    PackColumn(file.hdr.columns[i], appended[Len(appended)][i], EmptyMem,
               SlotBase + file.hdr.columns[i].offset,
               SlotBase + file.hdr.columns[i].offset).top

\* each column is written inside its bytes of the slot, the slot lies inside
\* the mapping, and no row byte lies outside the slots
InSlot ==
    /\ \A i \in 1..file.hdr.column_count :
          ColumnTop(i) <= SlotBase + file.hdr.columns[i].offset + file.hdr.columns[i].length
    /\ tbl.write_offset <= tbl.mapped_size
    /\ \A o \in DOMAIN file.mem : TABLE_HEADER_SIZE <= o /\ o < tbl.write_offset

\* C25: every byte table_append_row writes lies inside the row slot and the
\* mapping, each column inside [offset, offset + length) of the slot,
\* whatever the values.
C25_WritesStayInSlot == Appended => InSlot

\* the same, for layouts whose columns all have length >= 1
C25_WritesStayInSlotPositiveLengths ==
    (Appended /\ \A i \in 1..file.hdr.column_count : file.hdr.columns[i].length >= 1)
        => InSlot

-----------------------------------------------------------------------------
(* Engine A: one table of wide rows (id INTEGER, name TEXT: row_size 264,  *)
(* 15 rows to the page) filled until its data page has no room.  The first *)
(* FullFreeRows rows choose their text; the queries come while the table   *)
(* is small and once it is full.                                           *)

MaxFullRows  == 16    \* rows asked for (the page holds 15)
FullFreeRows == 1     \* rows that choose their name

FullOpen   == /\ db[1].state = "none"
              /\ \E p \in Policies : RistrettoOpen(1, "a.db", p)
              /\ UNCHANGED varsTable
FullCreate == /\ RistrettoRun(1, CreateStmt("u", ColumnsIdName), FALSE, "intact")
              /\ UNCHANGED varsTable
FullInsert == /\ RowCountOf("u") < MaxFullRows
              /\ \E s \in (IF RowCountOf("u") < FullFreeRows
                           THEN {<<97>>, <<97, 98>>} ELSE {<<97>>}) :
                    RistrettoRun(1, InsertStmt("u", <<IntTok(DecimalOf(RowCountOf("u") + 1)),
                                                      Tok("text", s)>>),
                                 FALSE, "intact")
              /\ UNCHANGED varsTable
FullSelect == /\ RowCountOf("u") <= FullFreeRows \/ RowCountOf("u") >= MaxFullRows - 1
              /\ \E e \in {NoExpr, WhereId7} : RistrettoRun(1, SelectStmt("u", e), TRUE, "intact")
              /\ UNCHANGED varsTable

NextFull == FullOpen \/ FullCreate \/ FullInsert \/ FullSelect
SpecFull == InitA /\ [][NextFull]_vars

\* the data page of the table has no room for another row, by the row_count
\* of its page header as handle h sees it
PageFull(h, table) ==
    /\ table.root_page # 0
    /\ SeenRowCount(h, table) >= 0
    /\ SeenRowCount(h, table) * table.row_size + PAGE_HEADER_SIZE + table.row_size > PAGE_SIZE

\* C26: an INSERT into a table whose data page has no room returns a code
\* other than OK and leaves table.row_count, the page and the index as they
\* were; an INSERT that returns OK has stored its row in a page other than
\* page 0.
C26_FullPageRefuses ==
    [][(out'.stmt.type = "insert" /\ out'.plan = "PLAN_INSERT" /\ out'.op = "exec") =>
        LET ti == find_table(catalog, out'.stmt.table_name)
        IN  /\ PageFull(out'.h, catalog[ti]) =>
                  /\ out'.result # RISTRETTO_OK
                  /\ catalog' = catalog
                  /\ disk' = disk
            /\ out'.result = RISTRETTO_OK =>
                  /\ catalog'[ti].root_page # 0
                  /\ catalog'[ti].row_count = catalog[ti].row_count + 1
    ]_vars

\* the 16th INSERT has been refused and the table still holds 15 rows
C26_Witness ==
    /\ out.op = "exec" /\ out.stmt.type = "insert" /\ out.result = RISTRETTO_ERROR
    /\ RowCountOf("u") = MaxFullRows - 1
    /\ SeenRowCount(1, catalog[find_table(catalog, "u")]) = MaxFullRows - 1
    /\ Len(hist.rows["u"]) = MaxFullRows - 1

-----------------------------------------------------------------------------
(* The table scanner (storage.c) on one handle: tables are created and     *)
(* filled through SQL, then a scanner is created on one of them and        *)
(* stepped.  out holds the scanner, the row (or null) of its last call,    *)
(* the rows returned so far and whether a null has been returned.          *)

MaxNextCalls == 5    \* table_scanner_next calls on one scanner

\* table_scanner_create(table, pager)
table_scanner_create(table) ==
    [current_page |-> table.root_page, current_offset |-> PAGE_HEADER_SIZE,
     rows_scanned |-> 0, at_end |-> table.row_count = 0]

AtEnd(w, sc) == [w |-> w, scanner |-> [sc EXCEPT !.at_end = TRUE], null |-> TRUE,
                 row |-> <<>>, fault |-> FALSE]

\* table_scanner_next from "PageHeader* header = (PageHeader*)page"
NextInPage(w, t, sc, table) ==
    IF ~t.ok
    THEN [w |-> w, scanner |-> sc, null |-> TRUE, row |-> <<>>, fault |-> TRUE]
    ELSE IF (sc.current_offset - PAGE_HEADER_SIZE) \div table.row_size >= U32(Load(w, t, 4, 4))
    THEN AtEnd(w, sc)
    ELSE [w |-> w,
          scanner |-> [sc EXCEPT !.current_offset = @ + table.row_size,
                                 !.rows_scanned = @ + 1],
          null |-> FALSE, row |-> Load(w, t, sc.current_offset, table.row_size),
          fault |-> FALSE]

NextOnPage(g, sc, table) ==
    IF g.page = NULL THEN AtEnd(g.w, sc) ELSE NextInPage(g.w, Resolve(g), sc, table)

\* table_scanner_next(scanner): [w, scanner, null, row, fault]
table_scanner_next(w, sc, table, h) ==
    IF sc.at_end \/ sc.rows_scanned >= table.row_count
    THEN AtEnd(w, sc)
    ELSE NextOnPage(pager_get_page(w, h, sc.current_page), sc, table)

ScannerCreate ==
    /\ ~crashed /\ db[1].state = "open"
    /\ \E ti \in 1..Len(catalog) :
          out' = [op |-> "scanner", ti |-> ti, scanner |-> table_scanner_create(catalog[ti]),
                  null |-> FALSE, row |-> <<>>, returned |-> <<>>, nulled |-> FALSE,
                  calls |-> 0]
    /\ UNCHANGED <<disk, db, catalog, hist, crashed>>
    /\ UNCHANGED varsTable

ScannerNext ==
    /\ ~crashed /\ db[1].state = "open"
    /\ out.op \in {"scanner", "next"} /\ out.calls < MaxNextCalls
    /\ \E r \in {table_scanner_next([disk |-> disk, db |-> db], out.scanner,
                                    catalog[out.ti], 1)} :
          /\ disk' = r.w.disk
          /\ db' = r.w.db
          /\ crashed' = r.fault
          /\ out' = [op |-> "next", ti |-> out.ti, scanner |-> r.scanner,
                     null |-> r.null, row |-> r.row,
                     returned |-> IF r.null THEN out.returned
                                  ELSE Append(out.returned, r.row),
                     nulled |-> out.nulled \/ (r.null /\ ~r.fault),
                     calls |-> out.calls + 1]
    /\ UNCHANGED <<catalog, hist>>
    /\ UNCHANGED varsTable

NextScanner == AOpen \/ ACreate \/ AInsert \/ ScannerCreate \/ ScannerNext
SpecScanner == InitA /\ [][NextScanner]_vars

\* the rows stored in the table a scanner is on, in insertion order
StoredRows(table) ==
    [i \in 1..Len(hist.rows[table.name]) |->
        RowBytes(table, InsertedValues([values |-> hist.rows[table.name][i]]))]

\* a step of the scanner after it has returned null
AfterNull ==
    (out.op = "next" /\ out.nulled /\ out'.op = "next") =>
        /\ out'.null
        /\ out'.scanner = out.scanner
        /\ out'.scanner.at_end

\* the rows returned are the first stored rows, in order, and all of them
\* once null has been returned
InOrder ==
    LET table == catalog[out.ti]
        rows  == StoredRows(table)
    IN  /\ Len(rows) = table.row_count
        /\ out.scanner.rows_scanned = Len(out.returned)
        /\ out.scanner.rows_scanned <= table.row_count
        /\ out.scanner.current_offset = PAGE_HEADER_SIZE + Len(out.returned) * table.row_size
        /\ Len(out.returned) <= Len(rows)
        /\ \A i \in 1..Len(out.returned) : out.returned[i] = rows[i]
        /\ out.nulled => (Len(out.returned) = Len(rows) /\ out.scanner.at_end)
        /\ (out.op = "scanner" /\ table.row_count = 0) => out.scanner.at_end

\* C27: a scanner on a table with r stored rows returns the rows of slots
\* 0 .. r-1 in order and then null; after a null it is at its end for good
\* and further calls change nothing; rows_scanned never exceeds row_count,
\* and a scanner on an empty table is at its end from creation.
C27_ScannerWalksAllRows ==
    /\ []((~crashed /\ out.op \in {"scanner", "next"}) => InOrder)
    /\ [][AfterNull]_vars

\* every page-table entry of the pager follows the mapping
PagesInPlace ==
    \A n \in DOMAIN db[1].pages : db[1].pages[n] = db[1].base + n * PAGE_SIZE

\* C27 while the page-table entries point at their pages
C27_ScannerWalksPagesInPlace ==
    /\ []((~crashed /\ out.op \in {"scanner", "next"} /\ PagesInPlace) => InOrder)
    /\ [][AfterNull]_vars

-----------------------------------------------------------------------------
(* Pagers behind the catalog (db.c, query.c, btree.c) *)

\* the handle, in its present opening, created the table at catalog
\* position i: the pager stored in the table's index is this handle's
OwnPager(i, h, gen) == hist.owner[catalog[i].name] = <<h, gen>>

\* the last call reached the index of its table: an INSERT that was stored
\* and indexed, or an index scan
ReachedIndex ==
    /\ out.op \in {"exec", "query"}
    /\ \/ out.plan = "PLAN_INDEX_SCAN"
       \/ out.plan = "PLAN_INSERT" /\ out.result = RISTRETTO_OK
    /\ find_table(catalog, out.stmt.table_name) # 0
    /\ catalog[find_table(catalog, out.stmt.table_name)].primary_index.present

\* C28: every page access of a statement on handle h goes through h's own
\* open pager, and no index of the catalog refers to the pager of a handle
\* that has been closed.
C28_PagesThroughOwnOpenPager ==
    /\ \A i \in 1..Len(catalog) :
          catalog[i].primary_index.present =>
              \E h \in Handles : db[h].state = "open" /\ OwnPager(i, h, db[h].gen)
    /\ ReachedIndex =>
          OwnPager(find_table(catalog, out.stmt.table_name), out.h, out.gen)

\* C28 as the code has it: the index of a table keeps the pager of the
\* handle that created the table, whichever handle runs the statement and
\* whether or not that handle is still open
C28_IndexKeepsCreatingPager ==
    \A i \in 1..Len(catalog) :
        catalog[i].primary_index.present =>
            /\ hist.owner[catalog[i].name][1] \in Handles
            /\ catalog[i].primary_index.pager = hist.owner[catalog[i].name][1]

-----------------------------------------------------------------------------
(* table_open on files it did not write (table_v2.c).  While no handle is  *)
(* open the file under the table's name may be cut short or replaced by    *)
(* another program; table_open then sees whatever lies there.              *)

MaxOpenRows == 2

OpenSchemas == {SchemaIdName, SchemaReal}

\* a ColumnDesc of zero bytes, as the unused entries of the header are
ZeroColumn == [name |-> "", type |-> 0, length |-> 0, offset |-> 0]

\* the file cut to size bytes (or extended with zero bytes)
Truncated(f, size) ==
    [f EXCEPT !.size = size,
              !.mem = [x \in {y \in DOMAIN f.mem : y < size} |-> f.mem[x]]]

\* headers that differ from f's in one field; beyond the columns of the
\* schema the header holds zero descriptors, which column_count then includes
HeaderVariants(f) ==
    {f,
     [f EXCEPT !.hdr.magic_ok = FALSE],
     [f EXCEPT !.hdr.version = TABLE_VERSION + 1],
     [f EXCEPT !.hdr.num_rows = @ + 1],
     [f EXCEPT !.hdr.row_size = @ + 4],
     [f EXCEPT !.hdr.column_count = MAX_COLUMNS + 1,
               !.hdr.columns = [i \in 1..MAX_COLUMNS |->
                                   IF i <= Len(f.hdr.columns) THEN f.hdr.columns[i]
                                   ELSE ZeroColumn]]}

\* the rows of the header end at this byte
RowsEnd(f) == TABLE_HEADER_SIZE + f.hdr.num_rows * f.hdr.row_size

FileSizes(f) ==
    {TABLE_HEADER_SIZE - 1, TABLE_HEADER_SIZE, RowsEnd(f) - 1, RowsEnd(f), f.size}

\* column_count <= 14, row_size is the sum of the lengths, and the rows of
\* the header lie inside the file
Consistent(f) ==
    /\ f.hdr.column_count <= MAX_COLUMNS
    /\ f.hdr.row_size = LengthSum(f.hdr.columns, Len(f.hdr.columns))
    /\ RowsEnd(f) <= f.size

FillBytes == {0, 65}

OCreate == (\E s \in OpenSchemas : TableCreate(s)) /\ UNCHANGED varsA
OAppend == /\ tbl.live /\ file.hdr.num_rows < MaxOpenRows /\ Consistent(file)
           /\ tbl.write_offset + file.hdr.row_size <= tbl.mapped_size
           /\ \E v \in SmallValues(file.hdr.columns) :
                  /\ TableAppend(v, FALSE, TRUE, TRUE, TRUE)
                  /\ UNCHANGED appended
           /\ UNCHANGED varsA
OClose  == TableClose /\ UNCHANGED varsA
OOpen   == TableOpen /\ UNCHANGED varsA

\* a table_select on the handle reads only bytes of the mapping
SelectReadsInside(t, f) ==
    \A i \in 1..f.hdr.num_rows :
        table_unpack_row(f.hdr.columns, f.mem,
                         TABLE_HEADER_SIZE + (i - 1) * f.hdr.row_size).top
            <= t.mapped_size

\* the memory a read past the mapping meets: other mapped memory of the
\* process, here filled with the byte b
Beyond(t, f, b) ==
    [f EXCEPT !.mem = [x \in DOMAIN f.mem \cup
                              {y \in t.mapped_size..(RowsEnd(f) + f.hdr.row_size) : b # 0} |->
                          IF x \in DOMAIN f.mem THEN f.mem[x] ELSE b]]

\* table_select; reads past the mapping either fault or meet other memory
OSelect ==
    /\ \/ TableSelect("")
       \/ /\ ~crashed /\ tbl.live /\ tbl.mapped /\ ~SelectReadsInside(tbl, file)
          /\ \E b \in FillBytes :
                sink' = table_select([tbl EXCEPT !.mapped_size =
                                          RowsEnd(file) + file.hdr.row_size],
                                     Beyond(tbl, file, b), "").rows
          /\ ret' = [op |-> "select", val |-> TRUE]
          /\ UNCHANGED <<file, tbl, crashed, appended, snap, envfail, codec>>
    /\ UNCHANGED varsA

\* the file is as table_create and table_append_row leave it
AsWritten(f) ==
    /\ f.exists /\ f.size = INITIAL_FILE_SIZE
    /\ f.hdr.magic_ok /\ f.hdr.version = TABLE_VERSION
    /\ f.hdr.column_count = Len(f.hdr.columns)
    /\ f.hdr.num_rows <= MaxOpenRows
    /\ Consistent(f)

\* another program leaves a different file under the name
OReplace ==
    /\ ~crashed /\ ~tbl.live /\ AsWritten(file) /\ ret.op = "close"
    /\ \E g \in HeaderVariants(file) : \E size \in FileSizes(g) :
          /\ Truncated(g, size) # file
          /\ file' = Truncated(g, size)
    /\ ret' = [op |-> "replace", val |-> TRUE]
    /\ snap' = [valid |-> FALSE]
    /\ UNCHANGED <<tbl, crashed, sink, appended, envfail, codec>>
    /\ UNCHANGED varsA

NextOpen == OCreate \/ OAppend \/ OClose \/ OOpen \/ OSelect \/ OReplace
SpecOpen == InitB /\ [][NextOpen]_vars

\* C29: a handle returned by table_open maps a header consistent with the
\* file -- column_count <= 14, row_size the sum of the column lengths,
\* 256 + num_rows * row_size <= mapped_size -- so write_offset lies inside
\* the mapping and a following table_select reads only mapped bytes; any
\* other file is rejected with null.
C29_OpenValidatesHeader ==
    (ret.op = "open" /\ ret.val) =>
        /\ Consistent(file)
        /\ tbl.mapped_size = file.size
        /\ tbl.write_offset <= tbl.mapped_size
        /\ SelectReadsInside(tbl, file)

\* C29 as the code has it: table_open rejects a missing file, one shorter
\* than the header and one with a wrong magic or version, and accepts every
\* other; the handle maps the whole file with write_offset computed from the
\* header, and table_select stays inside the mapping when the header is
\* consistent with the file.
C29_OpenChecksSizeMagicVersion ==
    /\ ret.op = "open" =>
           /\ ret.val <=> /\ file.exists /\ file.size >= TABLE_HEADER_SIZE
                          /\ file.hdr.magic_ok /\ file.hdr.version = TABLE_VERSION
           /\ ret.val => /\ tbl.mapped_size = file.size
                         /\ tbl.write_offset = RowsEnd(file)
                         /\ Consistent(file) => SelectReadsInside(tbl, file)
    /\ (ret.op = "select" /\ Consistent(file)) => (ret.val /\ SelectReadsInside(tbl, file))

-----------------------------------------------------------------------------
(* 64-bit first-column values and the 32-bit index key (query.c) *)

MaxKeyRows == 2

\* "4294967303" = 2^32 + 7 and "-4294967289" = 7 - 2^32
D2p32p7 == <<52, 50, 57, 52, 57, 54, 55, 51, 48, 51>>
DM2p32p7 == <<45, 52, 50, 57, 52, 57, 54, 55, 50, 56, 57>>

KeyLiterals == {D7, D3, D2p32p7, DM2p32p7}

KeyWheres ==
    {Binary("=", ColumnLeaf("id"), LiteralLeaf(IntTok(k))) : k \in KeyLiterals}
        \cup {Binary("=", LiteralLeaf(IntTok(k)), ColumnLeaf("id")) : k \in {D7, D2p32p7}}

\* one handle whose mapping grows in place, one indexed table
KOpen   == RistrettoOpen(1, "a.db", "low") /\ UNCHANGED varsTable
KCreate == RistrettoRun(1, CreateStmt("t", ColumnsIdV), FALSE, "intact")
               /\ UNCHANGED varsTable
KInsert == /\ RowCountOf("t") < MaxKeyRows
           /\ \E k \in KeyLiterals :
                 RistrettoRun(1, InsertStmt("t", <<IntTok(k), IntTok(D30)>>), FALSE,
                              "intact")
           /\ UNCHANGED varsTable
KSelect == /\ \E e \in KeyWheres : RistrettoRun(1, SelectStmt("t", e), TRUE, "intact")
           /\ UNCHANGED varsTable

NextKeys == KOpen \/ KCreate \/ KInsert \/ KSelect
SpecKeys == InitA /\ [][NextKeys]_vars

\* the last call was an index scan for col0 = k
KeyScan == out.op = "query" /\ out.plan = "PLAN_INDEX_SCAN" /\ out.stmt.where.op = "="

\* the (uint32_t) of an int64_t
LowWord(b8) == SubSeq(b8, 1, 4)

\* C30: an index scan for col0 = k never delivers a row whose first column
\* differs from k, and two distinct 64-bit first-column values are never the
\* same index key.
C30_IndexScanMatchesLiteral ==
    /\ KeyScan =>
          \A i \in 1..Len(out.rows) :
              strtoll(out.rows[i].values[1]) = strtoll(FilterLiteral(out.stmt.where).s)
    /\ \A i, j \in 1..Len(hist.rows["t"]) :
          InsertKey([values |-> hist.rows["t"][i]]) = InsertKey([values |-> hist.rows["t"][j]])
              => strtoll(hist.rows["t"][i][1].s) = strtoll(hist.rows["t"][j][1].s)

\* C30 as the code has it: the delivered row's first column agrees with k
\* in its low 32 bits; it is k when both lie in 0 .. 2^32 - 1
C30_IndexScanMatchesLowWord ==
    KeyScan =>
        \A i \in 1..Len(out.rows) :
            LET got == strtoll(out.rows[i].values[1])
                k   == strtoll(FilterLiteral(out.stmt.where).s)
            IN  /\ LowWord(got) = LowWord(k)
                /\ (SubSeq(got, 5, 8) = SubSeq(k, 5, 8)) => got = k

====
